---- MODULE Spec2Model ----
(***************************************************************************)
(* Verification model of the IPTV-98 automated_scan tools:                 *)
(*   - m3u_merger.py : URLValidator, M3UEntry, M3UMerger                   *)
(*   - rm-dupe.py    : normalize_url                                       *)
(*   - validator.py  : classify_stream                                     *)
(*   - m3u-vaildator.py : verify_playlist_item, verify_playlist_link,      *)
(*                        verify_video_link                                *)
(* Strings are sequences of one-character strings, so that lower(),        *)
(* strip(), rstrip('/') and the regular expressions are computed           *)
(* character by character, as Python computes them.                        *)
(***************************************************************************)
EXTENDS Integers, Sequences, FiniteSets, TLC

(***************************************************************************)
(* State                                                                   *)
(***************************************************************************)
\* key derivation on bounded inputs
VARIABLES kpc, urlA, urlB, kdiff, knfrag, knparam,
          keyA, keyB, rekeyA, normA, normB, renormA

\* M3UMerger: configuration, self.entries, self.invalid_entries,
\* self.fixed_entries, self.stats
VARIABLES conflict_strategy, auto_fix, remove_invalid, max_workers,
          entries, invalid_entries, fixed_entries, stats

\* one add_entries call: its position, the entries argument, the state of
\* each validation worker, the futures consumed by as_completed, the
\* processed_entries list and the index of the commit loop
VARIABLES mpc, batch, wpc, worig, wres, collected, processed_entries, ci

\* history of the merge: calls made, entries submitted (in their final
\* state), pairs committed
VARIABLES nsources, submitted, commit_log

\* classify_stream (validator.py): its position, the use_ffprobe argument,
\* the retry round, the probes issued so far, the last responses, the
\* first header response and the classification returned
VARIABLES cpc, use_ffprobe, cattempt, nhead, nget, ndeep, cresp, cchunk,
          first_head, cresult

\* classify_stream: how many of the header probes and partial-body fetches
\* issued so far failed (safe_head or safe_get_bytes returned None), and
\* what ffprobe_check answered ("none" while it was not called)
VARIABLES nfail, deep_ok

\* verify_playlist_item (m3u-vaildator.py): its position, the url and the
\* indent of the running verify_playlist_link call, the document m3u8.load
\* returned last, the segment about to be probed, the counter of passed
\* segments and the value returned
VARIABLES vpc, vurl, vindent, vdoc, vseg, vcounter, vresult

\* history of the verification: the urls given to m3u8.load with the
\* indent of the call, and the segments probed with the answer of
\* verify_video_link
VARIABLES vloads, vprobes

\* verify_playlist_link: the answer to the HEAD requests of the redirect
\* check made last (None before the first)
VARIABLES vhead

kvars == <<kpc, urlA, urlB, kdiff, knfrag, knparam,
           keyA, keyB, rekeyA, normA, normB, renormA>>

mconfig == <<conflict_strategy, auto_fix, remove_invalid, max_workers>>

mshared == <<entries, invalid_entries, fixed_entries, stats>>

mcall == <<mpc, batch, wpc, worig, wres, collected, processed_entries, ci>>

mhist == <<nsources, submitted, commit_log>>

mvars == <<mconfig, mshared, mcall, mhist>>

cvars == <<cpc, use_ffprobe, cattempt, nhead, nget, ndeep, nfail, deep_ok,
           cresp, cchunk, first_head, cresult>>

\* validate_paths (validator.py): the concurrency argument, the input
\* paths with the text of each file, the (ext, url) pairs process_file
\* built its coroutines from, the state of each check_and_return task,
\* the tasks completed and not yet consumed by the as_completed loops, the
\* write buffers of the handles each process_file opened, the files of
\* the target directories, the aggregated handles and the position of
\* validate_paths
VARIABLES concurrency, asrc, acoros, atask, aqueue, abuf, afiles, agg, apc

\* history of the run: the tasks whose triple was written, in order
VARIABLES awritten

avars == <<concurrency, asrc, acoros, atask, aqueue, abuf, afiles, agg, apc,
           awritten>>

\* the playlist tools on one file: the text of the file, the position, the
\* entries read_m3u returned, the arguments and the result of write_clean,
\* the entries M3UMerger.parse_m3u_file returned, the arguments of the
\* merger and the (key, entry) pairs of processed_entries
VARIABLES ptext, ppc, pentries, pflags, pwrite, mentries, mflags, mprocessed

pvars == <<ptext, ppc, pentries, pflags, pwrite, mentries, mflags, mprocessed>>

\* the main program of m3u-vaildator.py: the input files, the blacklist,
\* the position, the index of the file build_items_from_m3u_files is at,
\* playlist_items, the verdict of each item validated so far, the
\* filtered list and the lines of the output file (<<>> while not written)
VARIABLES rfiles, rblacklist, rpc, rindex, playlist_items, rverdicts, filtered,
          routput

rvars == <<rfiles, rblacklist, rpc, rindex, playlist_items, rverdicts,
           filtered, routput>>

\* main of merge_playlists.py: the raw lines of each input file, the size of
\* the thread pool, the state of each read_m3u future with the lines it
\* returned, the files merged so far in the order as_completed yielded
\* them, combined, seen_urls, the position and the lines written
VARIABLES gfiles, gthreads, gfuture, glines, gmerged, combined, seen_urls, gpc,
          goutput

gvars == <<gfiles, gthreads, gfuture, glines, gmerged, combined, seen_urls,
           gpc, goutput>>

\* process_file of rm-dupe.py: the lines of the file, the position, the line
\* index i (from 1), dout_lines, removed_urls, seen, metadata_buf, the three
\* counters and the lines written to the _dedup file
VARIABLES dtext, dpc, di, dout_lines, removed_urls, dseen, metadata_buf,
          total_urls, kept_urls, dup_count, doutput

dvars == <<dtext, dpc, di, dout_lines, removed_urls, dseen, metadata_buf,
           total_urls, kept_urls, dup_count, doutput>>

\* M3UEntry.fix_url on one entry: the URL line as it is built from
\* fragments, the number of fragments, the position, the url of the entry
\* and the value fix_url returned
VARIABLES furl, fnfrag, fpc, fentry_url, ffixed

fvars == <<furl, fnfrag, fpc, fentry_url, ffixed>>

\* the parsers that feed the validators, on one file: the lines of the
\* file, the position, the parser that ran and the items it returned
VARIABLES elines, epc, eparser, eitems

evars == <<elines, epc, eparser, eitems>>

\* merge_all of ultra-iptv.py: the text each playlist URL answers with (its
\* lines, <<>> for an error or an empty answer), the start URLs, visited,
\* collected, queue, batch, the state of the future of each batch
\* position, the position of the loop and the number of requests sent to
\* each URL
VARIABLES uweb, start_urls, visited, ucollected, uqueue, ubatch, ufuture, upc,
          ufetched

uvars == <<uweb, start_urls, visited, ucollected, uqueue, ubatch, ufuture,
           upc, ufetched>>

vvars == <<vpc, vurl, vindent, vdoc, vseg, vcounter, vresult, vloads, vprobes,
           vhead>>

vars == <<kvars, mvars, cvars, vvars, avars, pvars, rvars, gvars, dvars, fvars, evars, uvars>>

(***************************************************************************)
(* Bounds of the model                                                     *)
(***************************************************************************)
MaxFrags == 3
MaxParams == 2
MaxSources == 2
MaxEntries == 2
MaxWorkers == 2
MaxSegs == 6
MaxChildren == 2
MaxParentSegs == 1
MaxFiles == 2
MaxConcurrency == 2
MaxLines == 3
MaxInputs == 2
MaxFeedLines == 4
MaxStartUrls == 2

(***************************************************************************)
(* Python str primitives                                                   *)
(***************************************************************************)
Whitespace == {" ", "\t", "\n", "\r"}

Digits == {"0", "1", "2", "3", "4", "5", "6", "7", "8", "9"}

LowerLetters ==
  {"a", "b", "c", "d", "e", "f", "g", "h", "i", "j", "k", "l", "m",
   "n", "o", "p", "q", "r", "s", "t", "u", "v", "w", "x", "y", "z"}

UpperLetters ==
  {"A", "B", "C", "D", "E", "F", "G", "H", "I", "J", "K", "L", "M",
   "N", "O", "P", "Q", "R", "S", "T", "U", "V", "W", "X", "Y", "Z"}

LowerChar(c) ==
  CASE c = "A" -> "a" [] c = "B" -> "b" [] c = "C" -> "c" [] c = "D" -> "d"
    [] c = "E" -> "e" [] c = "F" -> "f" [] c = "G" -> "g" [] c = "H" -> "h"
    [] c = "I" -> "i" [] c = "J" -> "j" [] c = "K" -> "k" [] c = "L" -> "l"
    [] c = "M" -> "m" [] c = "N" -> "n" [] c = "O" -> "o" [] c = "P" -> "p"
    [] c = "Q" -> "q" [] c = "R" -> "r" [] c = "S" -> "s" [] c = "T" -> "t"
    [] c = "U" -> "u" [] c = "V" -> "v" [] c = "W" -> "w" [] c = "X" -> "x"
    [] c = "Y" -> "y" [] c = "Z" -> "z" [] OTHER -> c

UpperChar(c) ==
  CASE c = "a" -> "A" [] c = "b" -> "B" [] c = "c" -> "C" [] c = "d" -> "D"
    [] c = "e" -> "E" [] c = "f" -> "F" [] c = "g" -> "G" [] c = "h" -> "H"
    [] c = "i" -> "I" [] c = "j" -> "J" [] c = "k" -> "K" [] c = "l" -> "L"
    [] c = "m" -> "M" [] c = "n" -> "N" [] c = "o" -> "O" [] c = "p" -> "P"
    [] c = "q" -> "Q" [] c = "r" -> "R" [] c = "s" -> "S" [] c = "t" -> "T"
    [] c = "u" -> "U" [] c = "v" -> "V" [] c = "w" -> "W" [] c = "x" -> "X"
    [] c = "y" -> "Y" [] c = "z" -> "Z" [] OTHER -> c

\* str.lower()
Lower(s) == [i \in 1..Len(s) |-> LowerChar(s[i])]

\* str.upper()
Upper(s) == [i \in 1..Len(s) |-> UpperChar(s[i])]

\* s[from:] (1-based, from may exceed the length)
Drop(s, from) == SubSeq(s, from, Len(s))

RECURSIVE LStrip(_)
LStrip(s) ==
  IF s # <<>> /\ Head(s) \in Whitespace THEN LStrip(Tail(s)) ELSE s

RECURSIVE RStripSet(_, _)
\* str.rstrip(chars)
RStripSet(s, chars) ==
  IF s # <<>> /\ s[Len(s)] \in chars
  THEN RStripSet(SubSeq(s, 1, Len(s) - 1), chars)
  ELSE s

\* str.strip()
Strip(s) == LStrip(RStripSet(s, Whitespace))

\* str.startswith(p)
StartsWith(s, p) == Len(s) >= Len(p) /\ SubSeq(s, 1, Len(p)) = p

\* str.endswith(p)
EndsWith(s, p) ==
  Len(s) >= Len(p) /\ SubSeq(s, Len(s) - Len(p) + 1, Len(s)) = p

\* s.startswith(p, i-1): p occurs in s at position i
OccursAt(s, p, i) ==
  i >= 1 /\ i + Len(p) - 1 <= Len(s) /\ SubSeq(s, i, i + Len(p) - 1) = p

\* p in s
Contains(s, p) == \E i \in 1..(Len(s) + 1) : OccursAt(s, p, i)

\* s.find(p) + 1, 0 when p does not occur
Find(s, p) ==
  IF Contains(s, p)
  THEN CHOOSE i \in 1..(Len(s) + 1) :
         OccursAt(s, p, i) /\ \A j \in 1..(i - 1) : ~OccursAt(s, p, j)
  ELSE 0

RECURSIVE Replace(_, _, _)
\* str.replace(p, r) for a pattern p of one character or more
Replace(s, p, r) ==
  IF s = <<>> THEN <<>>
  ELSE IF OccursAt(s, p, 1) THEN r \o Replace(Drop(s, Len(p) + 1), p, r)
  ELSE <<Head(s)>> \o Replace(Tail(s), p, r)

(***************************************************************************)
(* M3UEntry.get_unique_key (m3u_merger.py) and normalize_url (rm-dupe.py)  *)
(***************************************************************************)
\* the alternation (token|auth|session|time|timestamp), in its order
VolatileNames ==
  << <<"t","o","k","e","n">>, <<"a","u","t","h">>,
     <<"s","e","s","s","i","o","n">>, <<"t","i","m","e">>,
     <<"t","i","m","e","s","t","a","m","p">> >>

\* [?&](token|auth|session|time|timestamp)= matches at position i of s:
\* the length of the matched prefix, 0 when there is no match
VolatileMatchLen(s, i) ==
  IF i <= Len(s) /\ s[i] \in {"?", "&"}
  THEN LET hit == {n \in 1..Len(VolatileNames) :
                     OccursAt(s, VolatileNames[n] \o <<"=">>, i + 1)}
       IN IF hit = {} THEN 0
          ELSE LET n == CHOOSE m \in hit : \A k \in hit : m <= k
               IN 1 + Len(VolatileNames[n]) + 1
  ELSE 0

RECURSIVE SkipValue(_, _)
\* [^&]* from position i: the first position that is not consumed
SkipValue(s, i) ==
  IF i <= Len(s) /\ s[i] # "&" THEN SkipValue(s, i + 1) ELSE i

RECURSIVE StripVolatile(_, _)
\* re.sub(r'[?&](token|auth|session|time|timestamp)=[^&]*', '', s),
\* scanning from position i, leftmost non-overlapping matches
StripVolatile(s, i) ==
  IF i > Len(s) THEN <<>>
  ELSE LET m == VolatileMatchLen(s, i)
       IN IF m > 0 THEN StripVolatile(s, SkipValue(s, i + m))
          ELSE <<s[i]>> \o StripVolatile(s, i + 1)

get_unique_key(url) ==
  RStripSet(StripVolatile(Strip(Lower(url)), 1), {"/"})

\* M3UEntry("", s).get_unique_key(): the constructor strips the url
entry_key(s) == get_unique_key(Strip(s))

normalize_url(u) ==
  IF u = <<>> THEN u
  ELSE LET nu == Strip(u)
       IN IF EndsWith(nu, <<"/">>) /\ ~StartsWith(nu, <<"r","t","m","p",":","/","/">>)
          THEN SubSeq(nu, 1, Len(nu) - 1)
          ELSE nu

(***************************************************************************)
(* urllib.parse.urlparse, as URLValidator.validate_url uses it             *)
(***************************************************************************)
SchemeChars == LowerLetters \cup UpperLetters \cup Digits \cup {"+", "-", "."}

\* schemes for which urlparse splits ';params' off the path (uses_params)
UsesParams ==
  { <<>>, <<"f","t","p">>, <<"h","d","l">>,
    <<"p","r","o","s","p","e","r","o">>, <<"h","t","t","p">>,
    <<"i","m","a","p">>, <<"h","t","t","p","s">>, <<"s","h","t","t","p">>,
    <<"r","t","s","p">>, <<"r","t","s","p","u">>, <<"s","i","p">>,
    <<"s","i","p","s">>, <<"m","m","s">>, <<"s","f","t","p">>,
    <<"t","e","l">> }

\* the position of the first character of s, from position i on, that is in
\* chars; Len(s) + 1 when there is none
RECURSIVE FirstOf(_, _, _)
FirstOf(s, chars, i) ==
  IF i > Len(s) \/ s[i] \in chars THEN i ELSE FirstOf(s, chars, i + 1)

\* s.rfind(c) + 1, 0 when c does not occur
RECURSIVE RFind(_, _, _)
RFind(s, c, i) ==
  IF i < 1 THEN 0 ELSE IF s[i] = c THEN i ELSE RFind(s, c, i - 1)

\* _splitparams(url)[0]
SplitParamsPath(url) ==
  LET from == IF Contains(url, <<"/">>) THEN RFind(url, "/", Len(url)) ELSE 1
      i == FirstOf(url, {";"}, from)
  IN IF i > Len(url) THEN url ELSE SubSeq(url, 1, i - 1)

\* the ParseResult of urlparse; failed stands for the
\* ValueError("Invalid IPv6 URL") of an unbalanced bracket in the netloc
\* (the URLs of the model hold no bracketed host, whose address urlsplit
\* would check as well)
MakeParsed(scheme, netloc, path, query) ==
  [ failed |-> (Contains(netloc, <<"[">>) /\ ~Contains(netloc, <<"]">>))
                 \/ (Contains(netloc, <<"]">>) /\ ~Contains(netloc, <<"[">>)),
    scheme |-> scheme,
    netloc |-> netloc,
    path   |-> IF scheme \in UsesParams /\ Contains(path, <<";">>)
               THEN SplitParamsPath(path) ELSE path,
    query  |-> query ]

\* urlsplit: url, query = url.split('?', 1)
SplitQuery(scheme, netloc, rest) ==
  LET q == FirstOf(rest, {"?"}, 1)
  IN MakeParsed(scheme, netloc, SubSeq(rest, 1, q - 1), Drop(rest, q + 1))

\* urlsplit: url, fragment = url.split('#', 1)
SplitFragment(scheme, netloc, rest) ==
  SplitQuery(scheme, netloc, SubSeq(rest, 1, FirstOf(rest, {"#"}, 1) - 1))

\* urlsplit: netloc, url = _splitnetloc(url, 2) when url[:2] == '//'
SplitNetloc(scheme, rest) ==
  LET nend == FirstOf(rest, {"/", "?", "#"}, 3)
  IN IF StartsWith(rest, <<"/", "/">>)
     THEN SplitFragment(scheme, SubSeq(rest, 3, nend - 1), Drop(rest, nend))
     ELSE SplitFragment(scheme, <<>>, rest)

\* urlsplit: the position of the ':' that ends the scheme, 0 when the url
\* has no scheme
SchemeEnd(url) ==
  LET i == Find(url, <<":">>)
  IN IF /\ i > 1
        /\ url[1] \in LowerLetters \cup UpperLetters
        /\ \A j \in 1..(i - 1) : url[j] \in SchemeChars
     THEN i ELSE 0

UrlSplit(url, k) ==
  IF k > 0 THEN SplitNetloc(Lower(SubSeq(url, 1, k - 1)), Drop(url, k + 1))
  ELSE SplitNetloc(<<>>, url)

\* urlparse(url): scheme, netloc, path and query
urlparse(url) == UrlSplit(LStrip(url), SchemeEnd(LStrip(url)))

DigitVal(c) ==
  CASE c = "0" -> 0 [] c = "1" -> 1 [] c = "2" -> 2 [] c = "3" -> 3
    [] c = "4" -> 4 [] c = "5" -> 5 [] c = "6" -> 6 [] c = "7" -> 7
    [] c = "8" -> 8 [] c = "9" -> 9 [] OTHER -> 0

RECURSIVE ToInt(_)
\* int(s) of a string of digits
ToInt(s) ==
  IF s = <<>> THEN 0
  ELSE 10 * ToInt(SubSeq(s, 1, Len(s) - 1)) + DigitVal(s[Len(s)])

\* ParseResult.port: [raised, value]; value -1 stands for None
PortValue(port) ==
  IF port = <<>> THEN [raised |-> FALSE, value |-> -1]
  ELSE IF \E j \in 1..Len(port) : port[j] \notin Digits
  THEN [raised |-> TRUE, value |-> -1]
  ELSE IF ToInt(port) > 65535 THEN [raised |-> TRUE, value |-> -1]
  ELSE [raised |-> FALSE, value |-> ToInt(port)]

\* hostname, _, port = hostinfo.partition(':')
PortAfterColon(tail) == PortValue(Drop(tail, FirstOf(tail, {":"}, 1) + 1))

\* _hostinfo: a bracketed host ends at ']'
PortOfHostinfo(hostinfo, br) ==
  IF br <= Len(hostinfo)
  THEN PortAfterColon(Drop(hostinfo, FirstOf(hostinfo, {"]"}, br + 1) + 1))
  ELSE PortAfterColon(hostinfo)

HostInfo(netloc) == Drop(netloc, RFind(netloc, "@", Len(netloc)) + 1)

PortOf(netloc) ==
  PortOfHostinfo(HostInfo(netloc), FirstOf(HostInfo(netloc), {"["}, 1))

(***************************************************************************)
(* URLValidator (m3u_merger.py)                                            *)
(***************************************************************************)
VALID_SCHEMES ==
  { <<"h","t","t","p">>, <<"h","t","t","p","s">>, <<"r","t","m","p">>,
    <<"r","t","m","p","s">>, <<"r","t","s","p">>, <<"u","d","p">>,
    <<"r","t","p">>, <<"m","m","s">>, <<"m","m","s","h">> }

HttpSchemes == { <<"h","t","t","p">>, <<"h","t","t","p","s">> }

MaxUrlLen == 2048

Verdict(issues) ==
  [raised |-> FALSE, is_valid |-> (Len(issues) = 0), issues |-> issues]

Fatal(issues) == [raised |-> FALSE, is_valid |-> FALSE, issues |-> issues]

Raised == [raised |-> TRUE, is_valid |-> FALSE, issues |-> <<>>]

\* the port warning of lines 81-85; parsed.port is read only for http(s)
PortIssues(scheme, port) ==
  IF scheme \in HttpSchemes /\ port.value > 0
  THEN IF scheme = <<"h","t","t","p">> /\ port.value \notin {80, 8080, 8000, 8888}
       THEN <<"Non-standard HTTP port">>
       ELSE IF scheme = <<"h","t","t","p","s">> /\ port.value \notin {443, 8443}
       THEN <<"Non-standard HTTPS port">>
       ELSE <<>>
  ELSE <<>>

SpaceIssue(url) ==
  IF Contains(url, <<" ">>) THEN <<"Contains unencoded spaces">> ELSE <<>>

SchemeIssue(scheme) ==
  IF scheme \notin VALID_SCHEMES THEN <<"Unsupported protocol">> ELSE <<>>

PathIssues(path) ==
  (IF Contains(path, <<"/", "/">>) /\ ~StartsWith(path, <<"/", "/">>)
   THEN <<"Double slashes in URL path">> ELSE <<>>)
  \o (IF Contains(path, <<".", ".">>)
      THEN <<"Path traversal detected">> ELSE <<>>)

LengthIssue(url) == IF Len(url) > MaxUrlLen THEN <<"URL too long">> ELSE <<>>

\* validate_url, lines 80-91; parsed.port raises for a port that is no
\* number below 65536
ValidatePort(url, scheme, port, issues) ==
  IF scheme \in HttpSchemes /\ port.raised THEN Raised
  ELSE Verdict(issues \o PortIssues(scheme, port) \o LengthIssue(url))

\* validate_url, lines 57-78
ValidateParsed(url, parsed, i1) ==
  IF parsed.failed THEN Fatal(i1 \o <<"URL parsing failed">>)
  ELSE IF parsed.scheme = <<>> THEN Fatal(i1 \o <<"Missing protocol">>)
  ELSE IF parsed.netloc = <<>> /\ parsed.scheme \in HttpSchemes
  THEN Fatal(i1 \o SchemeIssue(parsed.scheme) \o <<"Missing domain/host">>)
  ELSE ValidatePort(url, parsed.scheme, PortOf(parsed.netloc),
                    i1 \o SchemeIssue(parsed.scheme) \o PathIssues(parsed.path))

\* validate_url, lines 36-55, on the stripped url
ValidateStripped(url) ==
  IF StartsWith(url, <<":", "/", "/">>) THEN Fatal(<<"Missing protocol scheme">>)
  ELSE IF \E j \in 1..Len(url) : url[j] \in {"\n", "\r", "\t"}
  THEN Fatal(SpaceIssue(url) \o <<"Contains newline or tab characters">>)
  ELSE ValidateParsed(url, urlparse(url), SpaceIssue(url))

\* URLValidator.validate_url: [raised, is_valid, issues]; raised is the
\* ValueError of parsed.port, which the function does not catch
validate_url(url0) ==
  IF url0 = <<>> \/ Strip(url0) = <<>> THEN Fatal(<<"Empty URL">>)
  ELSE ValidateStripped(Strip(url0))

RECURSIVE RemoveChars(_, _)
RemoveChars(s, chars) ==
  IF s = <<>> THEN <<>>
  ELSE IF Head(s) \in chars THEN RemoveChars(Tail(s), chars)
  ELSE <<Head(s)>> \o RemoveChars(Tail(s), chars)

RECURSIVE CollapseSlashes(_)
\* re.sub(r'/+', '/', s)
CollapseSlashes(s) ==
  IF s = <<>> THEN <<>>
  ELSE IF Head(s) = "/" /\ Len(s) > 1 /\ s[2] = "/" THEN CollapseSlashes(Tail(s))
  ELSE <<Head(s)>> \o CollapseSlashes(Tail(s))

KnownPrefixes ==
  { <<"h","t","t","p",":","/","/">>, <<"h","t","t","p","s",":","/","/">>,
    <<"r","t","m","p",":","/","/">>, <<"r","t","s","p",":","/","/">>,
    <<"u","d","p",":","/","/">>, <<"r","t","p",":","/","/">> }

SchemeSep == <<":", "/", "/">>

\* fix_url, lines 99-105
FixChars(url) ==
  RemoveChars(Replace(Strip(url), <<" ">>, <<"%", "2", "0">>), {"\n", "\r", "\t"})

\* fix_url, lines 108-110
FixScheme(url) ==
  IF (\A p \in KnownPrefixes : ~StartsWith(url, p))
     /\ ~Contains(url, SchemeSep) /\ Contains(url, <<".">>)
  THEN <<"h","t","t","p",":","/","/">> \o url
  ELSE url

\* fix_url, lines 113-117: k is the position of the first '://'
FixSlashes(url, k) ==
  IF k > 0
  THEN SubSeq(url, 1, k - 1) \o SchemeSep \o CollapseSlashes(Drop(url, k + 3))
  ELSE url

FixSlashesOf(url) == FixSlashes(url, Find(url, SchemeSep))

\* URLValidator.fix_url
fix_url(url0) ==
  IF url0 = <<>> THEN url0 ELSE FixSlashesOf(FixScheme(FixChars(url0)))

(***************************************************************************)
(* M3UEntry (m3u_merger.py)                                                *)
(***************************************************************************)
\* M3UEntry.__init__ with the metadata that parse_extinf extracted; src and
\* pos record where the entry stands in the merge
M3UEntryOf(u, v, metadata, src, pos) ==
  [ url |-> u, metadata |-> metadata, is_valid |-> v.is_valid,
    url_issues |-> v.issues, src |-> src, pos |-> pos ]

M3UEntry(url, metadata, src, pos) ==
  M3UEntryOf(Strip(url), validate_url(Strip(url)), metadata, src, pos)

\* len(entry.metadata)
MetaLen(e) == Cardinality(DOMAIN e.metadata)

\* the playlist items the sources are drawn from, url and metadata:
\* a valid URL, a URL without scheme that fix_url repairs to the same key,
\* a path whose key is empty, and a URL whose repaired form has a port
\* that is no number
Pool ==
  << [ url |-> <<"H","T","T","P",":","/","/","a",".","b","/","x","?","t","o","k","e","n","=","1">>,
       metadata |-> [duration |-> -1, title |-> "one"] ],
     [ url |-> <<"a",".","b","/","x">>,
       metadata |-> [duration |-> -1, title |-> "two", group |-> "News"] ],
     [ url |-> <<"/">>, metadata |-> <<>> ],
     [ url |-> <<"a",".","b",":","x">>, metadata |-> <<>> ] >>

(***************************************************************************)
(* M3UMerger (m3u_merger.py)                                               *)
(***************************************************************************)
Strategies == {"first", "last", "longest"}

NoResult == [should_add |-> FALSE, key |-> <<>>]

MInit ==
  /\ conflict_strategy \in Strategies
  /\ auto_fix \in BOOLEAN
  /\ remove_invalid \in BOOLEAN
  /\ max_workers = MaxWorkers
  /\ entries = <<>>
  /\ invalid_entries = <<>>
  /\ fixed_entries = <<>>
  /\ stats = [total_processed |-> 0, valid |-> 0, invalid |-> 0,
              fixed |-> 0, duplicates |-> 0]
  /\ mpc = "idle"
  /\ batch = <<>> /\ wpc = <<>> /\ worig = <<>> /\ wres = <<>>
  /\ collected = {} /\ processed_entries = <<>> /\ ci = 1
  /\ nsources = 0 /\ submitted = <<>> /\ commit_log = <<>>

\* the merger before any call, in its default configuration
MIdle ==
  /\ conflict_strategy = "first" /\ auto_fix = TRUE /\ remove_invalid = FALSE
  /\ max_workers = MaxWorkers
  /\ entries = <<>>
  /\ invalid_entries = <<>>
  /\ fixed_entries = <<>>
  /\ stats = [total_processed |-> 0, valid |-> 0, invalid |-> 0,
              fixed |-> 0, duplicates |-> 0]
  /\ mpc = "idle"
  /\ batch = <<>> /\ wpc = <<>> /\ worig = <<>> /\ wres = <<>>
  /\ collected = {} /\ processed_entries = <<>> /\ ci = 1
  /\ nsources = 0 /\ submitted = <<>> /\ commit_log = <<>>

MFrame == UNCHANGED <<kvars, cvars, vvars, avars, pvars, rvars, gvars, dvars, fvars, evars, uvars>>

Workers == DOMAIN batch

\* the workers that hold a thread of the pool
Running == {i \in Workers : wpc[i] \notin {"queued", "done", "raised"}}

\* add_entries(entries): an empty list returns at once, otherwise every
\* entry is submitted to the executor
add_entries(list) ==
  /\ mpc = "idle" /\ nsources < MaxSources
  /\ IF list = <<>>
     THEN /\ nsources' = nsources + 1
          /\ UNCHANGED <<mcall, submitted>>
     ELSE /\ batch' = [i \in 1..Len(list) |->
                         M3UEntry(list[i].url, list[i].metadata, nsources + 1, i)]
          /\ wpc' = [i \in 1..Len(list) |-> "queued"]
          /\ worig' = [i \in 1..Len(list) |-> <<>>]
          /\ wres' = [i \in 1..Len(list) |-> NoResult]
          /\ collected' = {} /\ processed_entries' = <<>> /\ ci' = 1
          /\ mpc' = "collect"
          /\ UNCHANGED <<nsources, submitted>>
  /\ UNCHANGED <<mconfig, mshared, commit_log>> /\ MFrame

\* the mutant counts an entry only once it was found valid
count_processed_late(st) == st

\* process_entry, lines 288-289
count_processed(st) == [st EXCEPT !.total_processed = @ + 1]

\* where process_entry goes after the fix attempt (lines 301, 308)
AfterFix(e) == IF ~e.is_valid THEN "invalid_append" ELSE "valid_count"

\* a pool thread takes the next task of the queue and process_entry counts it
WStart(i) ==
  /\ mpc = "collect" /\ wpc[i] = "queued"
  /\ \A j \in 1..(i - 1) : wpc[j] # "queued"
  /\ Cardinality(Running) < max_workers
  /\ stats' = count_processed(stats)
  /\ wpc' = [wpc EXCEPT ![i] = "fix"]
  /\ UNCHANGED <<mconfig, entries, invalid_entries, fixed_entries, mpc, batch,
                 worig, wres, collected, processed_entries, ci, mhist>>
  /\ MFrame

\* process_entry, lines 292-294, with M3UEntry.fix_url: the url is assigned
\* before the re-validation, whose ValueError ends the task
WFixWith(i, e, fixed, v) ==
  IF auto_fix /\ ~e.is_valid /\ fixed # e.url
  THEN IF v.raised
       THEN /\ batch' = [batch EXCEPT ![i].url = fixed]
            /\ wpc' = [wpc EXCEPT ![i] = "raised"]
            /\ UNCHANGED worig
       ELSE /\ batch' = [batch EXCEPT ![i].url = fixed,
                                      ![i].is_valid = v.is_valid,
                                      ![i].url_issues = v.issues]
            /\ worig' = [worig EXCEPT ![i] = e.url]
            /\ wpc' = [wpc EXCEPT ![i] = "fixed_append"]
  ELSE /\ wpc' = [wpc EXCEPT ![i] = AfterFix(e)]
       /\ UNCHANGED <<batch, worig>>

WFix(i) ==
  /\ mpc = "collect" /\ wpc[i] = "fix"
  /\ WFixWith(i, batch[i], fix_url(batch[i].url), validate_url(fix_url(batch[i].url)))
  /\ UNCHANGED <<mconfig, mshared, mpc, wres, collected, processed_entries, ci,
                 mhist>>
  /\ MFrame

\* process_entry, lines 295-296
WFixedAppend(i) ==
  /\ mpc = "collect" /\ wpc[i] = "fixed_append"
  /\ fixed_entries' = Append(fixed_entries, <<worig[i], batch[i].url>>)
  /\ wpc' = [wpc EXCEPT ![i] = "fixed_count"]
  /\ UNCHANGED <<mconfig, entries, invalid_entries, stats, mpc, batch, worig,
                 wres, collected, processed_entries, ci, mhist>>
  /\ MFrame

\* process_entry, lines 297-298
WFixedCount(i) ==
  /\ mpc = "collect" /\ wpc[i] = "fixed_count"
  /\ stats' = [stats EXCEPT !.fixed = @ + 1]
  /\ wpc' = [wpc EXCEPT ![i] = AfterFix(batch[i])]
  /\ UNCHANGED <<mconfig, entries, invalid_entries, fixed_entries, mpc, batch,
                 worig, wres, collected, processed_entries, ci, mhist>>
  /\ MFrame

\* process_entry, lines 302-303
WInvalidAppend(i) ==
  /\ mpc = "collect" /\ wpc[i] = "invalid_append"
  /\ invalid_entries' = Append(invalid_entries, batch[i])
  /\ wpc' = [wpc EXCEPT ![i] = "invalid_count"]
  /\ UNCHANGED <<mconfig, entries, fixed_entries, stats, mpc, batch, worig,
                 wres, collected, processed_entries, ci, mhist>>
  /\ MFrame

\* process_and_add_entry, lines 316-320: the result of the task
process_and_add_entry(e, keep) ==
  IF keep THEN [should_add |-> TRUE, key |-> get_unique_key(e.url)]
  ELSE NoResult

\* process_entry, lines 304-307, and the return of process_and_add_entry
WInvalidCount(i) ==
  /\ mpc = "collect" /\ wpc[i] = "invalid_count"
  /\ stats' = [stats EXCEPT !.invalid = @ + 1]
  /\ wres' = [wres EXCEPT ![i] = process_and_add_entry(batch[i], ~remove_invalid)]
  /\ wpc' = [wpc EXCEPT ![i] = "done"]
  /\ UNCHANGED <<mconfig, entries, invalid_entries, fixed_entries, mpc, batch,
                 worig, collected, processed_entries, ci, mhist>>
  /\ MFrame

\* process_entry, lines 309-312, and the return of process_and_add_entry
WValidCount(i) ==
  /\ mpc = "collect" /\ wpc[i] = "valid_count"
  /\ stats' = [stats EXCEPT !.valid = @ + 1]
  /\ wres' = [wres EXCEPT ![i] = process_and_add_entry(batch[i], TRUE)]
  /\ wpc' = [wpc EXCEPT ![i] = "done"]
  /\ UNCHANGED <<mconfig, entries, invalid_entries, fixed_entries, mpc, batch,
                 worig, collected, processed_entries, ci, mhist>>
  /\ MFrame

\* add_entries, lines 343-357: as_completed hands over a finished future,
\* in no particular order among the finished ones
Collect(i) ==
  /\ mpc = "collect" /\ i \notin collected
  /\ wpc[i] \in {"done", "raised"}
  /\ processed_entries' =
       IF wpc[i] = "done" /\ wres[i].should_add /\ wres[i].key # <<>>
       THEN Append(processed_entries, <<wres[i].key, i>>)
       ELSE processed_entries
  /\ collected' = collected \cup {i}
  /\ UNCHANGED <<mconfig, mshared, mpc, batch, wpc, worig, wres, ci, mhist>>
  /\ MFrame

\* the loop over as_completed would end at the first result
FirstCollected(done) == done # {}

\* add_entries, lines 343 and 332: the loop over as_completed ends and the
\* executor shuts down when every future was handed over
AllCollected(done) == done = Workers

\* add_entries, lines 358-361: the executor has shut down
FinishCollect ==
  /\ mpc = "collect" /\ AllCollected(collected)
  /\ mpc' = "commit"
  /\ UNCHANGED <<mconfig, mshared, batch, wpc, worig, wres, collected,
                 processed_entries, ci, mhist>>
  /\ MFrame

\* add_entries, lines 373-379: the entry the key holds after a conflict
resolve_conflict(strategy, existing, entry) ==
  IF strategy = "last" THEN entry
  ELSE IF strategy = "longest" /\ MetaLen(entry) > MetaLen(existing) THEN entry
  ELSE existing

\* the mutant counts a duplicate only when the stored entry is kept
count_duplicate_kept(st, strategy) ==
  IF strategy = "first" THEN [st EXCEPT !.duplicates = @ + 1] ELSE st

\* add_entries, lines 369-370
count_duplicate(st, strategy) == [st EXCEPT !.duplicates = @ + 1]

\* add_entries, lines 362-379: one iteration of the commit loop
Commit ==
  /\ mpc = "commit" /\ ci <= Len(processed_entries)
  /\ LET key == processed_entries[ci][1]
         e == batch[processed_entries[ci][2]]
     IN /\ IF key \notin DOMAIN entries
           THEN /\ entries' = entries @@ (key :> e)
                /\ UNCHANGED stats
           ELSE /\ stats' = count_duplicate(stats, conflict_strategy)
                /\ entries' = [entries EXCEPT ![key] =
                                 resolve_conflict(conflict_strategy, entries[key], e)]
        /\ commit_log' = Append(commit_log,
                                [key |-> key, src |-> e.src, pos |-> e.pos,
                                 was_new |-> key \notin DOMAIN entries])
  /\ ci' = ci + 1
  /\ UNCHANGED <<mconfig, invalid_entries, fixed_entries, mpc, batch, wpc, worig,
                 wres, collected, processed_entries, nsources, submitted>>
  /\ MFrame

\* add_entries returns
Return ==
  /\ mpc = "commit" /\ ci > Len(processed_entries)
  /\ mpc' = "idle"
  /\ nsources' = nsources + 1
  /\ submitted' = submitted \o batch
  /\ batch' = <<>> /\ wpc' = <<>> /\ worig' = <<>> /\ wres' = <<>>
  /\ collected' = {} /\ processed_entries' = <<>> /\ ci' = 1
  /\ UNCHANGED <<mconfig, mshared, commit_log>>
  /\ MFrame

\* the lists a source may hold, within the entries still allowed
SourceLists ==
  UNION { [1..n -> {Pool[k] : k \in DOMAIN Pool}] :
            n \in 0..(MaxEntries - Len(submitted)) }

MNext ==
  \/ \E list \in SourceLists : add_entries(list)
  \/ \E i \in Workers : WStart(i)
  \/ \E i \in Workers : WFix(i)
  \/ \E i \in Workers : WFixedAppend(i)
  \/ \E i \in Workers : WFixedCount(i)
  \/ \E i \in Workers : WInvalidAppend(i)
  \/ \E i \in Workers : WInvalidCount(i)
  \/ \E i \in Workers : WValidCount(i)
  \/ \E i \in Workers : Collect(i)
  \/ FinishCollect
  \/ Commit
  \/ Return

(***************************************************************************)
(* Key derivation on bounded inputs.  Two URLs A and B are built in        *)
(* lockstep from fragments and query parameters; kdiff records the ways B  *)
(* was made to differ from A ("case", "volatile", "slash").                *)
(***************************************************************************)
RtmpPrefix == <<"r","t","m","p",":","/","/">>

\* every URL starts with a scheme and a host
HeadFrags == { <<"h",":","/","/","a">>, RtmpPrefix \o <<"a">> }

Frags == HeadFrags \cup { <<"/">>, <<"x">>, <<" ">> }

PlainParams == { <<"i","d","=","2">> }

VolatileParams ==
  { <<"t","o","k","e","n","=","1">>, <<"t","o","k","e","n","=","9">>,
    <<"a","u","t","h","=","1">> }

\* a query parameter appended to url, with the separator the url needs
WithParam(url, p) ==
  IF p = <<>> THEN url
  ELSE url \o (IF Contains(url, <<"?">>) THEN <<"&">> ELSE <<"?">>) \o p

KIdle ==
  /\ kpc = "base"
  /\ urlA = <<>> /\ urlB = <<>>
  /\ kdiff = {}
  /\ knfrag = 0 /\ knparam = 0
  /\ keyA = <<>> /\ keyB = <<>> /\ rekeyA = <<>>
  /\ normA = <<>> /\ normB = <<>> /\ renormA = <<>>

KFrame == UNCHANGED <<mvars, cvars, vvars, avars, pvars, rvars, gvars, dvars, fvars, evars, uvars>>

KUnchangedOut ==
  UNCHANGED <<keyA, keyB, rekeyA, normA, normB, renormA>> /\ KFrame

\* the same fragment is appended to both URLs
KAppend(f) ==
  /\ kpc = "base" /\ knfrag < MaxFrags
  /\ urlA = <<>> => f \in HeadFrags
  /\ urlA' = urlA \o f /\ urlB' = urlB \o f
  /\ knfrag' = knfrag + 1
  /\ UNCHANGED <<kpc, kdiff, knparam>> /\ KUnchangedOut

\* the same non-volatile query parameter is appended to both URLs
KParam(p) ==
  /\ kpc \in {"base", "query"} /\ urlA # <<>> /\ knparam < MaxParams
  /\ urlA' = WithParam(urlA, p) /\ urlB' = WithParam(urlB, p)
  /\ kpc' = "query" /\ knparam' = knparam + 1
  /\ UNCHANGED <<kdiff, knfrag>> /\ KUnchangedOut

\* volatile parameters that differ in presence or in value
KVolatile(a, b) ==
  /\ kpc \in {"base", "query"} /\ urlA # <<>> /\ knparam < MaxParams
  /\ a # <<>> \/ b # <<>>
  /\ urlA' = WithParam(urlA, a) /\ urlB' = WithParam(urlB, b)
  /\ kdiff' = IF a = b THEN kdiff ELSE kdiff \cup {"volatile"}
  /\ kpc' = "query" /\ knparam' = knparam + 1
  /\ UNCHANGED knfrag /\ KUnchangedOut

\* B differs from A in letter case
KUpper ==
  /\ kpc \in {"base", "query"} /\ urlB # <<>> /\ "case" \notin kdiff
  /\ Upper(urlB) # urlB
  /\ urlB' = Upper(urlB)
  /\ kdiff' = kdiff \cup {"case"}
  /\ kpc' = "varied"
  /\ UNCHANGED <<urlA, knfrag, knparam>> /\ KUnchangedOut

\* A is B with one trailing slash more
KSlash ==
  /\ kpc \in {"base", "query"} /\ urlA # <<>>
  /\ urlA' = urlA \o <<"/">>
  /\ kdiff' = kdiff \cup {"slash"}
  /\ kpc' = "varied"
  /\ UNCHANGED <<urlB, knfrag, knparam>> /\ KUnchangedOut

\* the keys of both URLs, by both derivations
KDerive ==
  /\ kpc \in {"base", "query", "varied"} /\ urlA # <<>>
  /\ keyA' = entry_key(urlA) /\ keyB' = entry_key(urlB)
  /\ normA' = normalize_url(urlA) /\ normB' = normalize_url(urlB)
  /\ kpc' = "keyed"
  /\ UNCHANGED <<urlA, urlB, kdiff, knfrag, knparam, rekeyA, renormA>>
  /\ KFrame

\* the derivations applied to their own results
KRederive ==
  /\ kpc = "keyed"
  /\ rekeyA' = entry_key(keyA)
  /\ renormA' = normalize_url(normA)
  /\ kpc' = "rekeyed"
  /\ UNCHANGED <<urlA, urlB, kdiff, knfrag, knparam, keyA, keyB, normA, normB>>
  /\ KFrame

KNext ==
  \/ \E f \in Frags : KAppend(f)
  \/ \E p \in PlainParams : KParam(p)
  \/ \E a, b \in VolatileParams \cup {<<>>} : KVolatile(a, b)
  \/ KUpper
  \/ KSlash
  \/ KDerive
  \/ KRederive

(***************************************************************************)
(* classify_stream (validator.py)                                          *)
(***************************************************************************)
DEFAULT_RETRIES == 3

\* len(chunk) > 32 and len(chunk2) > 64
SniffMin == 32

RetrySniffMin == 64

\* the alternatives of GOOD_CT_RE, which is searched with re.I
GoodCTWords ==
  { <<"m","p","e","g","u","r","l">>, <<"a","p","p","l","i","c","a","t","i","o","n","/","x","-","m","p","e","g","u","r","l">>, <<"a","p","p","l","i","c","a","t","i","o","n","/","v","n","d",".","a","p","p","l","e",".","m","p","e","g","u","r","l">>, <<"v","i","d","e","o">>, <<"a","u","d","i","o">> }

\* ct and GOOD_CT_RE.search(ct)
GoodCT(ct) == ct # <<>> /\ \E w \in GoodCTWords : Contains(Lower(ct), w)

\* the mutant looks for html without lower()
HtmlCTCaseSensitive(ct) == Contains(ct, <<"h","t","m","l">>)

\* "html" in (ct or "").lower()
HtmlCT(ct) == Contains(Lower(ct), <<"h","t","m","l">>)

HTML_BYTES == <<"<","h","t","m","l">>

EXTM3U_BYTES == <<"#","E","X","T","M","3","U">>

\* no response: safe_head and safe_get_bytes return None on any exception
None == [none |-> TRUE]

HeadResponse(status, ct) == [none |-> FALSE, status |-> status, ct |-> ct]

\* bytes read: text followed by pad bytes that are no letters
Chunk(text, pad) == [none |-> FALSE, text |-> text, pad |-> pad]

ContentTypes ==
  { <<"a","p","p","l","i","c","a","t","i","o","n","/","v","n","d",".","a","p","p","l","e",".","m","p","e","g","u","r","l">>,
    <<"v","i","d","e","o","/","m","p","2","t">>, <<"t","e","x","t","/","h","t","m","l">>, <<"T","e","x","t","/","H","T","M","L">>,
    <<"a","p","p","l","i","c","a","t","i","o","n","/","o","c","t","e","t","-","s","t","r","e","a","m">>, <<>> }

HeadResponses ==
  {None} \cup {HeadResponse(st, ct) : st \in {200, 404}, ct \in ContentTypes}

Chunks ==
  { None, Chunk(<<>>, 0), Chunk(EXTM3U_BYTES, 0), Chunk(<<"#","e","x","t","m","3","u">>, 70),
    Chunk(<<"<","H","T","M","L",">">>, 0), Chunk(HTML_BYTES, 70), Chunk(<<>>, 20),
    Chunk(<<>>, 40), Chunk(<<>>, 70) }

\* the mutant tests for HTML only
HeadVerdictHtmlOnly(resp) ==
  IF ~resp.none /\ resp.status = 200 /\ HtmlCT(resp.ct) THEN "broken" ELSE "none"

\* lines 145-152 and 177-182: the verdict of a header probe
HeadVerdict(resp) ==
  IF ~resp.none /\ resp.status = 200
  THEN IF GoodCT(resp.ct) THEN "working"
       ELSE IF HtmlCT(resp.ct) THEN "broken"
       ELSE "none"
  ELSE "none"

\* the mutant ends the classification when the fetch failed
SniffVerdictAbort(chunk, minlen) ==
  IF chunk.none THEN "broken"
  ELSE IF Len(chunk.text) + chunk.pad = 0 THEN "none"
  ELSE IF Contains(Lower(chunk.text), EXTM3U_BYTES) THEN "working"
  ELSE IF Contains(Lower(chunk.text), HTML_BYTES) THEN "broken"
  ELSE IF Len(chunk.text) + chunk.pad > minlen THEN "ambiguous"
  ELSE "none"

\* lines 157-169 and 184-195: the verdict of a partial-body fetch; the
\* signatures are searched in chunk.lower()
SniffVerdict(chunk, minlen) ==
  IF chunk.none \/ Len(chunk.text) + chunk.pad = 0 THEN "none"
  ELSE IF Contains(Lower(chunk.text), EXTM3U_BYTES) THEN "working"
  ELSE IF Contains(Lower(chunk.text), HTML_BYTES) THEN "broken"
  ELSE IF Len(chunk.text) + chunk.pad > minlen THEN "ambiguous"
  ELSE "none"

CInit ==
  /\ cpc = "head"
  /\ use_ffprobe \in BOOLEAN
  /\ cattempt = 0
  /\ nhead = 0 /\ nget = 0 /\ ndeep = 0 /\ nfail = 0 /\ deep_ok = "none"
  /\ cresp = None /\ cchunk = None /\ first_head = None
  /\ cresult = "none"

CIdle ==
  /\ cpc = "head"
  /\ use_ffprobe = FALSE
  /\ cattempt = 0
  /\ nhead = 0 /\ nget = 0 /\ ndeep = 0 /\ nfail = 0 /\ deep_ok = "none"
  /\ cresp = None /\ cchunk = None /\ first_head = None
  /\ cresult = "none"

CFrame == UNCHANGED <<kvars, mvars, vvars, avars, pvars, rvars, gvars, dvars, fvars, evars, uvars>>

\* the count of failed probes after the answer r: safe_head and
\* safe_get_bytes answer None when the request raised or timed out
Failed(n, r) == IF r.none THEN n + 1 ELSE n

\* return v
CReturn(v) == cpc' = "done" /\ cresult' = v

\* lines 140-152: the first header probe
CHead(resp) ==
  /\ cpc = "head"
  /\ nhead' = nhead + 1 /\ cresp' = resp /\ first_head' = resp
  /\ nfail' = Failed(nfail, resp)
  /\ IF HeadVerdict(resp) # "none" THEN CReturn(HeadVerdict(resp))
     ELSE cpc' = "get" /\ UNCHANGED cresult
  /\ UNCHANGED <<use_ffprobe, cattempt, nget, ndeep, deep_ok, cchunk>>
  /\ CFrame

\* after an ambiguous sniff: the deep probe when enabled, else maybe
CAmbiguous ==
  IF use_ffprobe THEN cpc' = "deep_sniff" /\ UNCHANGED cresult
  ELSE CReturn("maybe")

\* lines 155-171: the first partial-body fetch
CGet(chunk) ==
  /\ cpc = "get"
  /\ nget' = nget + 1 /\ cchunk' = chunk
  /\ nfail' = Failed(nfail, chunk)
  /\ IF SniffVerdict(chunk, SniffMin) \in {"working", "broken"}
     THEN CReturn(SniffVerdict(chunk, SniffMin)) /\ UNCHANGED cattempt
     ELSE IF SniffVerdict(chunk, SniffMin) = "ambiguous"
     THEN CAmbiguous /\ UNCHANGED cattempt
     ELSE cpc' = "retry_head" /\ cattempt' = 1 /\ UNCHANGED cresult
  /\ UNCHANGED <<use_ffprobe, nhead, ndeep, deep_ok, cresp, first_head>>
  /\ CFrame

\* lines 176-182: the header probe of a retry round
CRetryHead(resp) ==
  /\ cpc = "retry_head"
  /\ nhead' = nhead + 1 /\ cresp' = resp
  /\ nfail' = Failed(nfail, resp)
  /\ IF HeadVerdict(resp) # "none" THEN CReturn(HeadVerdict(resp))
     ELSE cpc' = "retry_get" /\ UNCHANGED cresult
  /\ UNCHANGED <<use_ffprobe, cattempt, nget, ndeep, deep_ok, cchunk,
                 first_head>>
  /\ CFrame

\* lines 183-198: the partial-body fetch of a retry round
CRetryGet(chunk) ==
  /\ cpc = "retry_get"
  /\ nget' = nget + 1 /\ cchunk' = chunk
  /\ nfail' = Failed(nfail, chunk)
  /\ IF SniffVerdict(chunk, RetrySniffMin) \in {"working", "broken"}
     THEN CReturn(SniffVerdict(chunk, RetrySniffMin))
     ELSE IF SniffVerdict(chunk, RetrySniffMin) = "ambiguous"
     THEN CAmbiguous
     ELSE cpc' = "sleep" /\ UNCHANGED cresult
  /\ UNCHANGED <<use_ffprobe, cattempt, nhead, ndeep, deep_ok, cresp,
                 first_head>>
  /\ CFrame

\* the mutant gives up one round early
MoreRoundsShort(attempt) == attempt < DEFAULT_RETRIES - 1

\* line 174, for _ in range(DEFAULT_RETRIES): another round follows round
\* number attempt
MoreRounds(attempt) == attempt < DEFAULT_RETRIES

\* line 198 and the loop of line 174; lines 200-206 after the last round
CSleep ==
  /\ cpc = "sleep"
  /\ IF MoreRounds(cattempt)
     THEN cpc' = "retry_head" /\ cattempt' = cattempt + 1 /\ UNCHANGED cresult
     ELSE /\ UNCHANGED cattempt
          /\ IF use_ffprobe THEN cpc' = "deep_final" /\ UNCHANGED cresult
             ELSE CReturn("broken")
  /\ UNCHANGED <<use_ffprobe, nhead, nget, ndeep, nfail, deep_ok, cresp,
                 cchunk, first_head>>
  /\ CFrame

\* the mutant takes a failed deep probe for broken on every path
DeepVerdictBroken(ok, pc) == IF ok THEN "working" ELSE "broken"

\* lines 168 and 194: "working" if ok else "maybe"; line 204: "working" if
\* ok else "broken"
DeepVerdict(ok, pc) ==
  IF ok THEN "working" ELSE IF pc = "deep_sniff" THEN "maybe" ELSE "broken"

\* lines 166-168, 192-194 and 202-204: ffprobe_check in the executor
CDeep(ok) ==
  /\ cpc \in {"deep_sniff", "deep_final"}
  /\ ndeep' = ndeep + 1
  /\ deep_ok' = IF ok THEN "pass" ELSE "fail"
  /\ CReturn(DeepVerdict(ok, cpc))
  /\ UNCHANGED <<use_ffprobe, cattempt, nhead, nget, nfail, cresp, cchunk,
                 first_head>>
  /\ CFrame

CNext ==
  \/ \E resp \in HeadResponses : CHead(resp)
  \/ \E chunk \in Chunks : CGet(chunk)
  \/ \E resp \in HeadResponses : CRetryHead(resp)
  \/ \E chunk \in Chunks : CRetryGet(chunk)
  \/ CSleep
  \/ \E ok \in BOOLEAN : CDeep(ok)

(***************************************************************************)
(* m3u-vaildator.py: verify_playlist_item, verify_playlist_link,           *)
(* verify_video_link                                                       *)
(***************************************************************************)
CHECK_FIRST_N_SEGMENTS == 5

MAX_NESTED_PLAYLIST_DEPTH == 6

DotTs == <<".","t","s">>

HttpPrefixes == { <<"h","t","t","p","s",":","/","/">>, <<"h","t","t","p",":","/","/">> }

\* the urls given to verify_playlist_item: none, a segment, a playlist by
\* its name, and two urls that only the content type can tell
ItemUrls ==
  { <<>>,
    <<"h","t","t","p",":","/","/","a","/","x",".","T","S">>,
    <<"h","t","t","p",":","/","/","a","/","p",".","m","3","u","8">>,
    <<"h","t","t","p",":","/","/","a","/","s">>,
    <<"h","t","t","p",":","/","/","a","/","x",".","t","s","?","q">> }

\* the uri of a segment record: absent (a record the parser of m3u8 keeps
\* for a trailing EXTINF or partial segment), or relative
SegUris == { <<>>, <<"s",".","t","s">> }

\* the uri of the n-th child playlist record; the parser of m3u8 gives
\* every child record the line after its EXT-X-STREAM-INF as uri
ChildUri(n) == IF n = 1 THEN <<"c","1",".","m","3","u","8">>
               ELSE IF n = 2 THEN <<"c","2",".","m","3","u","8">>
               ELSE <<"c","3",".","m","3","u","8">>

\* m3u8_obj.data of a loaded document; failed stands for the exception of
\* m3u8.load
Doc(playlists, segments) ==
  [failed |-> FALSE, playlists |-> playlists, segments |-> segments]

LoadError == [failed |-> TRUE, playlists |-> <<>>, segments |-> <<>>]

\* the segment lists of up to n records
SegLists(n) == UNION {[1..k -> SegUris] : k \in 0..n}

\* what m3u8.load may give: an exception, a document of segments only, a
\* document that lists child playlists (and some segments)
Docs ==
  {LoadError}
    \cup { Doc(<<>>, segs) : segs \in SegLists(MaxSegs) }
    \cup { Doc([n \in 1..c |-> ChildUri(n)], segs) :
             c \in 1..MaxChildren, segs \in SegLists(MaxParentSegs) }

\* the answers to the HEAD requests of the redirect check, lines 161-165:
\* an exception, a status, and for a 3xx status the second request, which
\* may raise, with the Location it was redirected to (<<>> when absent)
PlaylistHead(status, raised2, location) ==
  [none |-> FALSE, status |-> status, raised2 |-> raised2,
   location |-> location]

RedirectTargets ==
  { <<>>,
    <<"h","t","t","p",":","/","/","b","/","p",".","m","3","u","8">>,
    <<"h","t","t","p",":","/","/","b","/","p",".","m","3","u">>,
    <<"h","t","t","p",":","/","/","b","/","p",".","m","p","4">>,
    <<"h","t","t","p",":","/","/","b","/","p">> }

PlaylistHeads ==
  {None} \cup {PlaylistHead(st, FALSE, <<>>) : st \in {200, 404}}
         \cup {PlaylistHead(302, r, l) : r \in BOOLEAN, l \in RedirectTargets}

\* path.split(".")[-1]
LastPiece(path) == Drop(path, RFind(path, ".", Len(path)) + 1)

\* line 166: the extension of the redirect target, '' when there is none
Extension(redirected_url) ==
  IF redirected_url = <<>> THEN <<>>
  ELSE LastPiece(urlparse(redirected_url).path)

\* the mutant lets every redirect through
RedirectCheckAny(head) == ~head.none /\ ~head.raised2

\* lines 160-172: TRUE when the redirect check lets the playlist through
RedirectCheck(head) ==
  IF head.none THEN FALSE
  ELSE IF 300 <= head.status /\ head.status < 400
  THEN /\ ~head.raised2
       /\ Extension(head.location) \in { <<"m","3","u","8">>, <<"m","3","u">> }
  ELSE TRUE

\* m3u8_obj.base_uri: the url up to its last slash
BaseUri(url) == SubSeq(url, 1, RFind(url, "/", Len(url)))

\* lines 188-191 and 199-202: an absolute uri as it is, else base_uri + uri
AbsUrl(base, uri) ==
  IF \E h \in HttpPrefixes : StartsWith(uri, h) THEN uri
  ELSE BaseUri(base) \o uri

\* lines 136-137: the content types of a video stream
VideoCT(ct) ==
  \/ Contains(Lower(ct), <<"v","i","d","e","o">>)
  \/ Contains(Lower(ct), <<"o","c","t","e","t","-","s","t","r","e","a","m">>)
  \/ Contains(Lower(ct), <<"m","p","e","g","u","r","l">>)

\* lines 115-150: the HEAD request raised, or answered r
verify_video_link(url, r) ==
  IF r.none THEN FALSE
  ELSE IF r.status # 200 THEN FALSE
  ELSE IF VideoCT(r.ct) THEN TRUE
  ELSE EndsWith(urlparse(url).path, DotTs)

\* the mutant never takes a document for empty
IsEmptyNever(doc) == FALSE

\* line 180: no child playlist and no segment
IsEmpty(doc) == Len(doc.playlists) + Len(doc.segments) = 0

\* the mutant descends into the last child
LastChild(playlists, i) == Len(playlists)

\* lines 185-187: the index of the first child record with a uri, 0 when
\* there is none
RECURSIVE FirstChild(_, _)
FirstChild(playlists, i) ==
  IF i > Len(playlists) THEN 0
  ELSE IF playlists[i] # <<>> THEN i
  ELSE FirstChild(playlists, i + 1)

\* lines 195-198: the index of the first segment record with a uri from
\* position i on, Len + 1 when there is none
RECURSIVE NextSeg(_, _)
NextSeg(segments, i) ==
  IF i > Len(segments) THEN i
  ELSE IF segments[i] # <<>> THEN i
  ELSE NextSeg(segments, i + 1)

\* the mutant lets one more level through
TooDeepLate(indent) == indent > MAX_NESTED_PLAYLIST_DEPTH + 1

\* line 155: indent > MAX_NESTED_PLAYLIST_DEPTH
TooDeep(indent) == indent > MAX_NESTED_PLAYLIST_DEPTH

\* the mutant stops one segment late
CapReachedLate(counter) == counter > CHECK_FIRST_N_SEGMENTS

\* line 207: counter >= check_first_N_only
CapReached(counter) == counter >= CHECK_FIRST_N_SEGMENTS

VInit ==
  /\ vpc = "item"
  /\ vurl = <<>> /\ vindent = 0
  /\ vdoc = LoadError
  /\ vseg = 0 /\ vcounter = 0
  /\ vresult = FALSE
  /\ vloads = <<>> /\ vprobes = <<>>
  /\ vhead = None

VIdle == VInit

VFrame == UNCHANGED <<kvars, mvars, cvars, avars, pvars, rvars, gvars, dvars, fvars, evars, uvars>>

\* return v
VReturn(v) == vpc' = "done" /\ vresult' = v

\* lines 152-157: the call verify_playlist_link(url, indent=indent) up to
\* its first request
verify_playlist_link(url, indent) ==
  /\ vurl' = url /\ vindent' = indent
  /\ IF TooDeep(indent) THEN VReturn(FALSE)
     ELSE vpc' = "head" /\ UNCHANGED vresult

\* lines 225 and 230: how verify_playlist_item reads the url
IsSegmentName(url) == EndsWith(Lower(url), DotTs)

IsPlaylistName(url) ==
  \/ EndsWith(Lower(url), <<".","m","3","u","8">>)
  \/ Contains(Lower(url), <<"t","y","p","e","=","m","3","u">>)
  \/ Contains(Lower(url), <<"x","-","m","p","e","g","u","r","l">>)

\* line 242
ItemVideoCT(ct) ==
  \/ Contains(Lower(ct), <<"v","i","d","e","o">>)
  \/ Contains(Lower(ct), <<"o","c","t","e","t","-","s","t","r","e","a","m">>)

\* line 243
ItemPlaylistCT(ct) ==
  \/ Contains(Lower(ct), <<"x","-","m","p","e","g","u","r","l">>)
  \/ Contains(Lower(ct), <<"a","p","p","l","i","c","a","t","i","o","n","/","v","n","d",".","a","p","p","l","e",".","m","p","e","g","u","r","l">>)

\* a return of verify_playlist_item itself, at indent 1
VItemReturn(url, v) == vurl' = url /\ vindent' = 1 /\ VReturn(v)

\* lines 235-259: the generic HEAD request of verify_playlist_item raised,
\* or answered r
VItemHead(url, r) ==
  IF r.none \/ r.status # 200 THEN VItemReturn(url, FALSE)
  ELSE IF ItemVideoCT(r.ct) THEN VItemReturn(url, TRUE)
  ELSE IF ItemPlaylistCT(r.ct) THEN verify_playlist_link(url, 2)
  ELSE VItemReturn(url, EndsWith(urlparse(url).path, DotTs))

\* lines 214-259: verify_playlist_item(item) up to its return or to the
\* first request of verify_playlist_link; r answers its HEAD request
VItem(url, r) ==
  /\ vpc = "item"
  /\ IF url = <<>> THEN VItemReturn(url, FALSE)
     ELSE IF IsSegmentName(url)
     THEN VItemReturn(url, verify_video_link(url, r))
     ELSE IF IsPlaylistName(url) THEN verify_playlist_link(url, 1)
     ELSE VItemHead(url, r)
  /\ UNCHANGED <<vdoc, vseg, vcounter, vloads, vprobes, vhead>>
  /\ VFrame

\* lines 160-172: the redirect check
VHead(head) ==
  /\ vpc = "head"
  /\ IF RedirectCheck(head) THEN vpc' = "load" /\ UNCHANGED vresult
     ELSE VReturn(FALSE)
  /\ vhead' = head
  /\ UNCHANGED <<vurl, vindent, vdoc, vseg, vcounter, vloads, vprobes>>
  /\ VFrame

\* lines 194-198: counter = 0 and the loop runs to the first segment with
\* a uri from position i on, or to its end and line 212
VToSegment(segments, i) ==
  /\ vseg' = NextSeg(segments, i)
  /\ IF NextSeg(segments, i) > Len(segments) THEN VReturn(TRUE)
     ELSE vpc' = "probe" /\ UNCHANGED vresult

\* lines 174-198: m3u8.load(url) raised, or returned the document doc
VLoad(doc) ==
  /\ vpc = "load"
  /\ vloads' = Append(vloads, [indent |-> vindent, url |-> vurl])
  /\ vdoc' = doc
  /\ IF doc.failed \/ IsEmpty(doc)
     THEN VReturn(FALSE) /\ UNCHANGED <<vurl, vindent, vseg, vcounter>>
     ELSE IF FirstChild(doc.playlists, 1) > 0
     THEN /\ verify_playlist_link(
               AbsUrl(vurl, doc.playlists[FirstChild(doc.playlists, 1)]),
               vindent + 1)
          /\ UNCHANGED <<vseg, vcounter>>
     ELSE /\ VToSegment(doc.segments, 1)
          /\ vcounter' = 0
          /\ UNCHANGED <<vurl, vindent>>
  /\ UNCHANGED <<vprobes, vhead>>
  /\ VFrame

\* lines 204-212 after a passed segment
VPassed ==
  /\ vcounter' = vcounter + 1
  /\ IF CapReached(vcounter + 1) THEN VReturn(TRUE) /\ UNCHANGED vseg
     ELSE VToSegment(vdoc.segments, vseg + 1)

\* lines 199-210: verify_video_link of the segment vseg, whose HEAD
\* request raised or answered r
VProbeWith(ok) ==
  /\ vprobes' = Append(vprobes, [indent |-> vindent, seg |-> vseg, ok |-> ok])
  /\ IF ok THEN VPassed
     ELSE VReturn(FALSE) /\ UNCHANGED <<vseg, vcounter>>

VProbe(r) ==
  /\ vpc = "probe"
  /\ VProbeWith(verify_video_link(AbsUrl(vurl, vdoc.segments[vseg]), r))
  /\ UNCHANGED <<vurl, vindent, vdoc, vloads, vhead>>
  /\ VFrame

VNext ==
  \/ \E url \in ItemUrls, r \in HeadResponses : VItem(url, r)
  \/ \E head \in PlaylistHeads : VHead(head)
  \/ \E doc \in Docs : VLoad(doc)
  \/ \E r \in HeadResponses : VProbe(r)

(***************************************************************************)
(* validate_paths, process_file and parse_m3u_file  (validator.py)         *)
(***************************************************************************)
NL == "\n"

RECURSIVE SplitLines(_)
\* str.splitlines() for the line ends \n, \r and \r\n
SplitLines(text) ==
  IF text = <<>> THEN <<>>
  ELSE LET k == FirstOf(text, {"\n", "\r"}, 1)
           n == IF k < Len(text) /\ text[k] = "\r" /\ text[k + 1] = "\n"
                THEN 2 ELSE 1
       IN  IF k > Len(text) THEN <<text>>
           ELSE <<SubSeq(text, 1, k - 1)>> \o SplitLines(Drop(text, k + n))

\* the value of ext before the first #EXTINF line and after each yield
\* (None in the code, which tests it with  if ext)
NoExt == <<>>

RECURSIVE ParseLines(_, _)
\* the loop of parse_m3u_file over the lines left, ext being the last
\* #EXTINF line seen
ParseLines(lines, ext) ==
  IF lines = <<>> THEN <<>>
  ELSE LET line == Strip(Head(lines))
       IN  IF line = <<>> THEN ParseLines(Tail(lines), ext)
           ELSE IF StartsWith(line, <<"#","E","X","T","I","N","F">>)
             THEN ParseLines(Tail(lines), line)
           ELSE IF StartsWith(line, <<"#">>)
             THEN ParseLines(Tail(lines), ext)
           ELSE <<[ext |-> ext, url |-> line]>>
                  \o ParseLines(Tail(lines), NoExt)

\* parse_m3u_file on a file of the given text: the (ext, url) pairs yielded
parse_m3u_file(text) == ParseLines(SplitLines(text), NoExt)

Statuses == {"working", "maybe", "broken"}

\* the file names collect_input_paths can return for one directory, sorted
AFileNames == << <<"x",".","m","3","u">>, <<"x",".","m","3","u","8">>, <<"y",".","m","3","u">> >>

AExt == <<"#","E","X","T","I","N","F",":","0",",","A">>
AUrl1 == <<"h","t","t","p",":","/","/","a","/","1">>
AUrl2 == <<"h","t","t","p",":","/","/","b","/","2">>

\* texts of input files: one pair, two pairs of which the first has no
\* #EXTINF line, and a file without a URL
ATexts ==
  { <<"#","E","X","T","M","3","U","\n">> \o AExt \o <<"\n"," "," ">> \o AUrl1 \o <<" ","\n">>,
    AUrl2 \o <<"\n","\n">> \o AExt \o <<"\r","\n","#","E","X","T","V","L","C","O","P","T",":","x","\n">> \o AUrl1,
    AExt \o <<"\n">> }

\* Path.stem of a file name
Stem(name) ==
  IF RFind(name, ".", Len(name)) > 1
  THEN SubSeq(name, 1, RFind(name, ".", Len(name)) - 1)
  ELSE name

Sources == 1..Len(asrc)

ATasks == UNION {{s} \X DOMAIN acoros[s] : s \in Sources}

Triple(t) == acoros[t[1]][t[2]]

\* the target directories (outdir / src.stem)
Dirs == {Stem(asrc[s].name) : s \in Sources}

EmptyBuckets == [st \in Statuses |-> <<>>]

\* the subsequences of AFileNames of 1..MaxFiles paths with any texts
SourceChoices ==
  { f \in UNION {[1..n -> (1..Len(AFileNames)) \X ATexts] : n \in 1..MaxFiles} :
      \A i \in 1..(Len(f) - 1) : f[i][1] < f[i + 1][1] }

\* the state once every process_file has opened its files, built its
\* coroutines and reached its first await
AInit ==
  /\ concurrency \in 1..MaxConcurrency
  /\ \E f \in SourceChoices :
       /\ asrc = [i \in DOMAIN f |->
                    [name |-> AFileNames[f[i][1]], text |-> f[i][2]]]
       /\ acoros = [i \in DOMAIN f |-> parse_m3u_file(f[i][2])]
  /\ atask = [t \in ATasks |-> [pc |-> "wait", status |-> "none"]]
  /\ aqueue = <<>>
  /\ abuf = [s \in Sources |-> EmptyBuckets]
  /\ afiles = [d \in Dirs |-> EmptyBuckets]
  /\ agg = EmptyBuckets
  /\ apc = "run"
  /\ awritten = <<>>

AIdle ==
  /\ concurrency = 1
  /\ asrc = <<>> /\ acoros = <<>>
  /\ atask = <<>>
  /\ aqueue = <<>>
  /\ abuf = <<>>
  /\ afiles = <<>>
  /\ agg = EmptyBuckets
  /\ apc = "done"
  /\ awritten = <<>>

AFrame == UNCHANGED <<kvars, mvars, cvars, vvars, pvars, rvars, gvars, dvars, fvars, evars, uvars>>

\* the tasks holding the semaphore: in the delay or in classify_stream
InFlight == {t \in ATasks : atask[t].pc \in {"delay", "classify"}}

\* asyncio.Semaphore.locked() for the semaphore of validate_paths
\* the mutant admits one task more
SemLockedLate(n) == n > concurrency

SemLocked(n) == n >= concurrency

\* async with sem: the semaphore serves its waiters in the order they
\* arrived, and the tasks of a source are created before those of the
\* sources after it
AAcquire(t) ==
  /\ apc = "run" /\ atask[t].pc = "wait"
  /\ ~SemLocked(Cardinality(InFlight))
  /\ \A u \in ATasks : u[1] < t[1] => atask[u].pc # "wait"
  /\ atask' = [atask EXCEPT ![t].pc = "delay"]
  /\ UNCHANGED <<concurrency, asrc, acoros, aqueue, abuf, afiles, agg, apc,
                 awritten>>
  /\ AFrame

\* await asyncio.sleep(...)
ADelayDone(t) ==
  /\ atask[t].pc = "delay"
  /\ atask' = [atask EXCEPT ![t].pc = "classify"]
  /\ UNCHANGED <<concurrency, asrc, acoros, aqueue, abuf, afiles, agg, apc,
                 awritten>>
  /\ AFrame

\* classify_stream returns status, or raises and the status is "broken";
\* the semaphore is released and the task completes
AClassified(t, status) ==
  /\ atask[t].pc = "classify"
  /\ atask' = [atask EXCEPT ![t] = [pc |-> "done", status |-> status]]
  /\ aqueue' = Append(aqueue, t)
  /\ UNCHANGED <<concurrency, asrc, acoros, abuf, afiles, agg, apc, awritten>>
  /\ AFrame

\* the writes of one triple to a handle, as the buffer after them
\* the mutants end the URL without a newline, and write the URL first
WriteTripleNoNewline(buf, tr) ==
  buf \o (IF tr.ext # NoExt THEN tr.ext \o <<NL>> ELSE <<>>) \o tr.url

WriteTripleUrlFirst(buf, tr) ==
  buf \o tr.url \o <<NL>> \o (IF tr.ext # NoExt THEN tr.ext \o <<NL>> ELSE <<>>)

WriteTriple(buf, tr) ==
  buf \o (IF tr.ext # NoExt THEN tr.ext \o <<NL>> ELSE <<>>) \o tr.url \o <<NL>>

\* close() of a handle opened with "w" at the start of the run: the buffer
\* is written over the file from offset 0
Flush(file, buf) == buf \o Drop(file, Len(buf) + 1)

Written(s, log) == \A t \in ATasks : t[1] = s => \E n \in DOMAIN log : log[n] = t

\* process_file: one round of the as_completed loop, and the close of the
\* three handles after the last round
AWrite ==
  /\ aqueue # <<>>
  /\ LET t == Head(aqueue)
         s == t[1]
         st == atask[t].status
         nbuf == [abuf EXCEPT ![s][st] = WriteTriple(@, Triple(t))]
     IN  /\ aqueue' = Tail(aqueue)
         /\ abuf' = nbuf
         /\ agg' = [agg EXCEPT ![st] = WriteTriple(@, Triple(t))]
         /\ awritten' = Append(awritten, t)
         /\ afiles' = IF Written(s, Append(awritten, t))
                      THEN [afiles EXCEPT ![Stem(asrc[s].name)] =
                              [b \in Statuses |-> Flush(@[b], nbuf[s][b])]]
                      ELSE afiles
  /\ UNCHANGED <<concurrency, asrc, acoros, atask, apc>>
  /\ AFrame

\* validate_paths: asyncio.gather returned, the aggregated handles are
\* closed
AFinish ==
  /\ apc = "run"
  /\ \A s \in Sources : Written(s, awritten)
  /\ apc' = "done"
  /\ UNCHANGED <<concurrency, asrc, acoros, atask, aqueue, abuf, afiles, agg,
                 awritten>>
  /\ AFrame

\* the file of an aggregated handle: written when the handle is closed
AggFile(st) == IF apc = "done" THEN agg[st] ELSE <<>>

ANext ==
  \/ \E t \in ATasks : AAcquire(t)
  \/ \E t \in ATasks : ADelayDone(t)
  \/ \E t \in ATasks, status \in Statuses : AClassified(t, status)
  \/ AWrite
  \/ AFinish

(***************************************************************************)
(* parse_extinf_line, Entry, read_m3u, write_clean  (m3u-autofix.py)       *)
(* M3UEntry.parse_extinf, M3UMerger.parse_m3u_file  (m3u_merger.py)        *)
(***************************************************************************)
\* an Optional[str] that is a string
Some(s) == [none |-> FALSE, val |-> s]

\* not x, for an Optional[str]
Falsy(x) == x.none \/ x.val = <<>>

IsDigits(s) == \A n \in DOMAIN s : s[n] \in Digits

Unsigned(s) == IF s # <<>> /\ s[1] \in {"+", "-"} THEN Tail(s) ELSE s

\* float(s) does not raise ValueError, for the literals without exponent,
\* underscore, inf or nan: [sign] digits [. digits] or [sign] . digits
IsFloat(s) ==
  LET u == Unsigned(Strip(s))
      d == Find(u, <<".">>)
  IN  IF d = 0 THEN u # <<>> /\ IsDigits(u)
      ELSE /\ Len(u) > 1
           /\ IsDigits(SubSeq(u, 1, d - 1)) /\ IsDigits(Drop(u, d + 1))

\* float(s) as sign, whole part and fraction digits without trailing
\* zeros; -1 when s is no float literal (the except branches)
Number(neg, whole, frac) ==
  [neg |-> neg /\ (whole # 0 \/ frac # <<>>), whole |-> whole, frac |-> frac]

MinusOne == Number(TRUE, 1, <<>>)

FloatOf(u, d, neg) ==
  IF d = 0 THEN Number(neg, ToInt(u), <<>>)
  ELSE Number(neg, ToInt(SubSeq(u, 1, d - 1)), RStripSet(Drop(u, d + 1), {"0"}))

FloatOr(s) ==
  IF IsFloat(s)
  THEN FloatOf(Unsigned(Strip(s)), Find(Unsigned(Strip(s)), <<".">>),
               Strip(s)[1] = "-")
  ELSE MinusOne

\* int(x): truncation toward zero
Int_(x) == IF x.neg THEN 0 - x.whole ELSE x.whole

\* the tuple parse_extinf_line returns
Parsed(duration, title, attrs, malformed) ==
  [duration |-> duration, title |-> title, attrs |-> attrs,
   malformed |-> malformed]

ExtinfColon == <<"#","E","X","T","I","N","F",":">>

\* RE_DURATION_TITLE matched payload: the duration is the run of
\* characters before position k, the attrs run from the first character
\* after the white space to the first comma, at position c
DurationTitle(payload, k, c) ==
  Parsed(Int_(FloatOr(SubSeq(payload, 1, k - 1))),
         Strip(Drop(payload, c + 1)),
         Strip(SubSeq(payload, k, c - 1)),
         FALSE)

\* parse_extinf_line from the payload on (lines 42-66)
ParsePayload(payload) ==
  IF Contains(payload, <<",">>) /\ FirstOf(payload, Whitespace \cup {","}, 1) > 1
  THEN DurationTitle(payload, FirstOf(payload, Whitespace \cup {","}, 1),
                     FirstOf(payload, {","}, 1))
  ELSE IF Contains(payload, <<",">>)
  THEN Parsed(Int_(FloatOr(SubSeq(payload, 1, Find(payload, <<",">>) - 1))),
              Strip(Drop(payload, Find(payload, <<",">>) + 1)), <<>>, FALSE)
  ELSE IF IsFloat(payload) THEN Parsed(Int_(FloatOr(payload)), <<>>, <<>>, FALSE)
  ELSE Parsed(-1, <<>>, <<>>, TRUE)

\* parse_extinf_line(line)
parse_extinf_line(line) ==
  IF ~StartsWith(Upper(Strip(line)), ExtinfColon)
  THEN Parsed(-1, <<>>, <<>>, TRUE)
  ELSE ParsePayload(Strip(Drop(Strip(line), Len(ExtinfColon) + 1)))

\* Entry(extinf_line, ext_lineno, url_line, url_lineno); the line number 0
\* stands for None
EntryOf(extinf_line, ext_lineno, url_line, url_lineno, p) ==
  [extinf_line |-> extinf_line, ext_lineno |-> ext_lineno,
   url_line |-> url_line, url_lineno |-> url_lineno,
   duration |-> p.duration, title |-> p.title, attrs |-> p.attrs,
   malformed_extinf |-> p.malformed]

Entry(extinf_line, ext_lineno, url_line, url_lineno) ==
  EntryOf(extinf_line, ext_lineno, url_line, url_lineno,
          IF Falsy(extinf_line) THEN Parsed(-1, <<>>, <<>>, FALSE)
          ELSE parse_extinf_line(extinf_line.val))

\* the mutant returns the empty string for a missing URL
normalized_url_raw(e) ==
  Some(IF e.url_line.none THEN <<>> ELSE Strip(e.url_line.val))

\* Entry.normalized_url
normalized_url(e) ==
  IF Falsy(e.url_line) THEN None ELSE Some(Strip(e.url_line.val))

\* Entry.status
status(e) ==
  IF ~Falsy(e.extinf_line) /\ Falsy(e.url_line) THEN "broken_extinf_no_url"
  ELSE IF Falsy(e.extinf_line) /\ ~Falsy(e.url_line) THEN "bare_url"
  ELSE IF ~Falsy(e.extinf_line) /\ ~Falsy(e.url_line)
    THEN (IF e.malformed_extinf THEN "malformed_extinf_with_url" ELSE "ok")
  ELSE "empty"

IsExtinfAnyCase(line) == StartsWith(Upper(line), <<"#","E","X","T","I","N","F">>)

RECURSIVE FindUrl(_, _)
\* the mutant takes the next line as the URL, whatever it is
FindUrlFirst(lines, j) ==
  [url |-> IF j > Len(lines) THEN None ELSE Some(Strip(lines[j])),
   lineno |-> j, next |-> j + 1]

\* read_m3u, lines 133-146: the search from line j for the URL of an
\* #EXTINF line; next is the line the outer loop goes on with
FindUrl(lines, j) ==
  IF j > Len(lines) THEN [url |-> None, lineno |-> 0, next |-> j]
  ELSE IF Strip(lines[j]) = <<>> THEN FindUrl(lines, j + 1)
  ELSE IF IsExtinfAnyCase(Strip(lines[j]))
    THEN [url |-> None, lineno |-> 0, next |-> j]
  ELSE IF StartsWith(Strip(lines[j]), <<"#">>) THEN FindUrl(lines, j + 1)
  ELSE [url |-> Some(Strip(lines[j])), lineno |-> j, next |-> j + 1]

RECURSIVE ReadFrom(_, _)
ExtinfBlock(lines, i, f) ==
  <<Entry(Some(Strip(lines[i])), i, f.url, f.lineno)>> \o ReadFrom(lines, f.next)

\* read_m3u, the loop from line i on (lines 122-154)
ReadFrom(lines, i) ==
  IF i > Len(lines) THEN <<>>
  ELSE IF Strip(lines[i]) = <<>> THEN ReadFrom(lines, i + 1)
  ELSE IF IsExtinfAnyCase(Strip(lines[i]))
    THEN ExtinfBlock(lines, i, FindUrl(lines, i + 1))
  ELSE IF ~StartsWith(Strip(lines[i]), <<"#">>)
    THEN <<Entry(None, 0, Some(Strip(lines[i])), i)>> \o ReadFrom(lines, i + 1)
  ELSE ReadFrom(lines, i + 1)

\* read_m3u on a file of the given text: the entries
read_m3u(text) == ReadFrom(SplitLines(text), 1)

DigitChar(n) ==
  CASE n = 0 -> "0" [] n = 1 -> "1" [] n = 2 -> "2" [] n = 3 -> "3"
    [] n = 4 -> "4" [] n = 5 -> "5" [] n = 6 -> "6" [] n = 7 -> "7"
    [] n = 8 -> "8" [] OTHER -> "9"

RECURSIVE NatStr(_)
NatStr(n) == IF n < 10 THEN <<DigitChar(n)>>
             ELSE NatStr(n \div 10) \o <<DigitChar(n % 10)>>

\* str(n) of an int
IntStr(n) == IF n < 0 THEN <<"-">> \o NatStr(0 - n) ELSE NatStr(n)

\* write_clean, lines 185-188: the #EXTINF line rebuilt from the fields
RebuiltExtinf(e) ==
  ExtinfColon \o IntStr(e.duration) \o <<",">>
    \o Strip(Replace(IF e.title = <<>> THEN <<"(","n","o"," ","t","i","t","l","e",")">> ELSE e.title,
                     <<NL>>, <<" ">>))

\* write_clean, line 174
BrokenComment(e) ==
  <<"#"," ","B","R","O","K","E","N"," ","E","X","T","I","N","F"," ","(","l","i","n","e"," ">> \o IntStr(e.ext_lineno) \o <<")",":"," ">> \o e.extinf_line.val

\* the locals of write_clean
WriteState(seen, out_lines, written, broken_kept, duplicates_removed) ==
  [seen |-> seen, out_lines |-> out_lines, written |-> written,
   broken_kept |-> broken_kept, duplicates_removed |-> duplicates_removed]

\* write_clean, lines 169-189: one round of the loop, url being
\* e.normalized_url()
WriteEntry(w, e, url, preserve_attrs, keep_broken, dedupe) ==
  IF url.none
  THEN IF ~Falsy(e.extinf_line) /\ keep_broken
       THEN [w EXCEPT !.out_lines = Append(@, BrokenComment(e)),
                      !.broken_kept = @ + 1]
       ELSE w
  ELSE IF dedupe /\ url.val \in w.seen
  THEN [w EXCEPT !.duplicates_removed = @ + 1]
  ELSE [w EXCEPT !.seen = @ \cup {url.val},
                 !.out_lines = @ \o <<IF ~Falsy(e.extinf_line) /\ preserve_attrs
                                       THEN e.extinf_line.val
                                       ELSE RebuiltExtinf(e),
                                      url.val>>,
                 !.written = @ + 1]

RECURSIVE WriteLoop(_, _, _, _, _)
WriteLoop(es, w, preserve_attrs, keep_broken, dedupe) ==
  IF es = <<>> THEN w
  ELSE WriteLoop(Tail(es),
                 WriteEntry(w, Head(es), normalized_url(Head(es)),
                            preserve_attrs, keep_broken, dedupe),
                 preserve_attrs, keep_broken, dedupe)

\* write_clean(entries, out_path, preserve_attrs, keep_broken, dedupe):
\* the lines written and the counters returned
write_clean(es, preserve_attrs, keep_broken, dedupe) ==
  WriteLoop(es, WriteState({}, << <<"#","E","X","T","M","3","U">> >>, 0, 0, 0),
            preserve_attrs, keep_broken, dedupe)

WordChars == LowerLetters \cup UpperLetters \cup Digits \cup {"_"}

RECURSIVE KeyStart(_, _)
\* the start of the run of word characters and single hyphens that ends at
\* position q - 1
KeyStart(t, q) ==
  IF q > 1 /\ (t[q - 1] \in WordChars
               \/ (t[q - 1] = "-" /\ q > 2 /\ t[q - 2] \in WordChars
                   /\ q <= Len(t) /\ t[q] \in WordChars))
  THEN KeyStart(t, q - 1) ELSE q

RECURSIVE Attributes(_, _)
\* re.finditer(r'(\w+(?:-\w+)*)="([^"]*)"', t) from position i on: the
\* (key, value) pairs
Attributes(t, i) ==
  LET q == i + Find(Drop(t, i), <<"=", "\"">>) - 1
      c == FirstOf(t, {"\""}, q + 2)
  IN  IF q < i THEN {}
      ELSE IF c > Len(t) \/ KeyStart(t, q) = q \/ KeyStart(t, q) < i
        THEN Attributes(t, q + 1)
      ELSE { <<SubSeq(t, KeyStart(t, q), q - 1), SubSeq(t, q + 2, c - 1)>> }
             \cup Attributes(t, c + 1)

\* str.split()[0] of a string with a character that is no white space
FirstToken(t) ==
  SubSeq(LStrip(t), 1, FirstOf(LStrip(t), Whitespace, 1) - 1)

NoMetadata == [parsed |-> FALSE]

\* M3UEntry.parse_extinf with the comma at position c: the metadata
ExtinfMetadata(line, c) ==
  [parsed |-> TRUE,
   duration |-> IF Strip(SubSeq(line, Len(ExtinfColon) + 1, c - 1)) = <<>>
                THEN MinusOne
                ELSE FloatOr(FirstToken(SubSeq(line, Len(ExtinfColon) + 1, c - 1))),
   title |-> Strip(Drop(line, c + 1)),
   attributes |-> Attributes(Strip(SubSeq(line, Len(ExtinfColon) + 1, c - 1)), 1)]

\* M3UEntry.parse_extinf
parse_extinf(extinf_line) ==
  IF ~StartsWith(extinf_line, ExtinfColon) \/ ~Contains(extinf_line, <<",">>)
  THEN NoMetadata
  ELSE ExtinfMetadata(extinf_line, Find(extinf_line, <<",">>))

\* M3UEntry(extinf_line, url) as parse_m3u_file builds it
ParsedEntry(extinf_line, url) ==
  [extinf_line |-> Strip(extinf_line), url |-> Strip(url),
   metadata |-> parse_extinf(Strip(extinf_line))]

RECURSIVE NextUrlLine(_, _)
\* M3UMerger.parse_m3u_file, lines 270-276: the first line from i on that
\* is not empty and no comment, Len(lines) + 1 when there is none
NextUrlLine(lines, i) ==
  IF i > Len(lines) THEN i
  ELSE IF Strip(lines[i]) # <<>> /\ ~StartsWith(Strip(lines[i]), <<"#">>) THEN i
  ELSE NextUrlLine(lines, i + 1)

RECURSIVE MergerParseFrom(_, _)
ExtinfEntry(lines, i, j) ==
  IF j > Len(lines) THEN <<>>
  ELSE <<ParsedEntry(lines[i], lines[j])>> \o MergerParseFrom(lines, j + 1)

\* M3UMerger.parse_m3u_file, the loop from line i on (lines 251-282)
MergerParseFrom(lines, i) ==
  IF i > Len(lines) THEN <<>>
  ELSE IF StartsWith(Strip(lines[i]), ExtinfColon)
    THEN ExtinfEntry(lines, i, NextUrlLine(lines, i + 1))
  ELSE IF Strip(lines[i]) # <<>> /\ ~StartsWith(Strip(lines[i]), <<"#">>)
    THEN <<ParsedEntry(<<>>, lines[i])>> \o MergerParseFrom(lines, i + 1)
  ELSE MergerParseFrom(lines, i + 1)

\* M3UMerger.parse_m3u_file on a file of the given text
merger_parse_m3u_file(text) == MergerParseFrom(SplitLines(text), 1)

\* process_entry, lines 292-296: the entry after the fix attempt, and
\* whether the re-validation raised
process_entry(e, fix, fixed, v) ==
  IF fix /\ ~e.is_valid /\ fixed # e.url
  THEN [raised |-> v.raised,
        entry |-> [e EXCEPT !.url = fixed, !.is_valid = v.is_valid,
                            !.url_issues = v.issues]]
  ELSE [raised |-> FALSE, entry |-> e]

\* add_entries, lines 343-347: the pair appended to processed_entries for
\* the processed entry p, none when the task raised, the entry is removed
\* or its key is empty
ProcessedPair(p, remove) ==
  IF ~p.raised /\ ~(remove /\ ~p.entry.is_valid)
     /\ get_unique_key(p.entry.url) # <<>>
  THEN << <<get_unique_key(p.entry.url), p.entry>> >>
  ELSE <<>>

RECURSIVE ProcessAll(_, _, _, _)
\* add_entries on the entries es, the futures consumed in list order
ProcessAll(es, n, fix, remove) ==
  IF n > Len(es) THEN <<>>
  ELSE ProcessedPair(
         process_entry(M3UEntry(es[n].url, es[n].metadata, 1, n), fix,
                       fix_url(es[n].url), validate_url(fix_url(es[n].url))),
         remove)
       \o ProcessAll(es, n + 1, fix, remove)

\* the lines an input file is made of
PLines ==
  { <<"#","E","X","T","I","N","F",":","-","1"," ","g","r","o","u","p","-","t","i","t","l","e","=","\"","N","e","w","s","\"",",","C","N","N">>,
    <<"h","t","t","p",":","/","/","a",".","t","e","s","t","/","c","n","n",".","m","3","u","8">>,
    <<"#","E","X","T","I","N","F",":","x",",","B">>,
    <<"#","E","X","T","I","N","F",":","1",".","5"," ","g","=","\"","A",",","B","\"",",","C">>,
    <<" ">>,
    <<"#","E","X","T","I","N","F",":","a","b","c">>,
    <<"a",".","b","/","x">>,
    <<"/">>,
    <<"#","E","X","T","V","L","C","O","P","T",":","x">> }

RECURSIVE JoinLines(_)
JoinLines(lines) ==
  IF lines = <<>> THEN <<>> ELSE Head(lines) \o <<NL>> \o JoinLines(Tail(lines))

PTexts == {JoinLines(l) : l \in UNION {[1..n -> PLines] : n \in 1..MaxLines}}

NoWrite == WriteState({}, <<>>, 0, 0, 0)

PInit ==
  /\ ptext \in PTexts
  /\ ppc = "start"
  /\ pentries = <<>>
  /\ pflags = <<TRUE, TRUE, TRUE>>
  /\ pwrite = NoWrite
  /\ mentries = <<>>
  /\ mflags = <<FALSE, FALSE>>
  /\ mprocessed = <<>>

PIdle ==
  /\ ptext = <<>>
  /\ ppc = "idle"
  /\ pentries = <<>>
  /\ pflags = <<TRUE, TRUE, TRUE>>
  /\ pwrite = NoWrite
  /\ mentries = <<>>
  /\ mflags = <<FALSE, FALSE>>
  /\ mprocessed = <<>>

PFrame == UNCHANGED <<kvars, mvars, cvars, vvars, avars, rvars, gvars, dvars, fvars, evars, uvars>>

\* analyze_and_fix: _, entries = read_m3u(input_file)
PReadM3u ==
  /\ ppc = "start"
  /\ pentries' = read_m3u(ptext)
  /\ ppc' = "read"
  /\ UNCHANGED <<ptext, pflags, pwrite, mentries, mflags, mprocessed>>
  /\ PFrame

\* analyze_and_fix: write_clean(entries, output_file, ...)
PWriteClean(preserve_attrs, keep_broken, dedupe) ==
  /\ ppc = "read"
  /\ pflags' = <<preserve_attrs, keep_broken, dedupe>>
  /\ pwrite' = write_clean(pentries, preserve_attrs, keep_broken, dedupe)
  /\ ppc' = "written"
  /\ UNCHANGED <<ptext, pentries, mentries, mflags, mprocessed>>
  /\ PFrame

\* M3UMerger.parse_m3u_file(filepath)
PParse ==
  /\ ppc = "start"
  /\ mentries' = merger_parse_m3u_file(ptext)
  /\ ppc' = "parsed"
  /\ UNCHANGED <<ptext, pentries, pflags, pwrite, mflags, mprocessed>>
  /\ PFrame

\* M3UMerger(auto_fix, remove_invalid).add_entries(entries), up to the
\* processed_entries list
PProcess(fix, remove) ==
  /\ ppc = "parsed"
  /\ mflags' = <<fix, remove>>
  /\ mprocessed' = ProcessAll(mentries, 1, fix, remove)
  /\ ppc' = "processed"
  /\ UNCHANGED <<ptext, pentries, pflags, pwrite, mentries>>
  /\ PFrame

PNext ==
  \/ PReadM3u
  \/ \E preserve_attrs, keep_broken, dedupe \in BOOLEAN :
       PWriteClean(preserve_attrs, keep_broken, dedupe)
  \/ PParse
  \/ \E fix, remove \in BOOLEAN : PProcess(fix, remove)

(***************************************************************************)
(* build_items_from_m3u_files, filter_streams_concurrent and the main      *)
(* program  (m3u-vaildator.py)                                             *)
(***************************************************************************)
\* an input path: a directory, or a file with the lines read_local_file
\* returns for it
RFile(is_dir, content) == [is_dir |-> is_dir, content |-> content]

RUrl1 == <<"h","t","t","p",":","/","/","a","/","1">>
RUrl2 == <<"h","t","t","p",":","/","/","b","/","2">>

\* a directory, an empty file, two playlists, a file without the header
\* and a file without a URL
RInputs ==
  { RFile(TRUE, <<>>),
    RFile(FALSE, <<>>),
    RFile(FALSE, << <<"#","E","X","T","M","3","U">>, <<"#","E","X","T","I","N","F",":","-","1",",","A">>, RUrl1 >>),
    RFile(FALSE, << <<"#","E","X","T","M","3","U">>, RUrl2, <<>>, <<"#","E","X","T","I","N","F",":","-","1",",","A">>, RUrl1 >>),
    RFile(FALSE, << <<"#","E","X","T","I","N","F",":","-","1",",","B">>, RUrl2 >>),
    RFile(FALSE, << <<"#","E","X","T","M","3","U">>, <<"#","E","X","T","I","N","F",":","-","1",",","B">> >>) }

\* line 284, for a first line of ASCII characters
HasHeader(content) == Strip(content[1]) = <<"#","E","X","T","M","3","U">>

\* line 287
url_indexes(content) ==
  {u \in DOMAIN content : StartsWith(content[u], <<"h","t","t","p">>)}

RECURSIVE ItemsFrom(_, _, _)
\* lines 291-299: the items of the URL lines from u on that are not on the
\* blacklist
ItemsFrom(content, u, blacklist) ==
  IF u > Len(content) THEN <<>>
  ELSE (IF u \in url_indexes(content) /\ content[u] \notin blacklist
        THEN <<[metadata |-> content[u - 1], url |-> content[u]]>>
        ELSE <<>>)
       \o ItemsFrom(content, u + 1, blacklist)

RInit ==
  /\ rfiles \in UNION {[1..n -> RInputs] : n \in 1..MaxInputs}
  /\ rblacklist \in {{}, {RUrl2}}
  /\ rpc = "build"
  /\ rindex = 1
  /\ playlist_items = <<>>
  /\ rverdicts = <<>>
  /\ filtered = <<>>
  /\ routput = <<>>

RIdle ==
  /\ rfiles = <<>>
  /\ rblacklist = {}
  /\ rpc = "idle"
  /\ rindex = 1
  /\ playlist_items = <<>>
  /\ rverdicts = <<>>
  /\ filtered = <<>>
  /\ routput = <<>>

RFrame == UNCHANGED <<kvars, mvars, cvars, vvars, avars, pvars, gvars, dvars, fvars, evars, uvars>>

\* the file has the header and a URL
Structured(f) ==
  ~f.is_dir /\ f.content # <<>> /\ HasHeader(f.content)
  /\ url_indexes(f.content) # {}

\* the Exception of line 285 or 289 is raised for the file
Raises(f) == ~f.is_dir /\ f.content # <<>> /\ ~Structured(f)

\* build_items_from_m3u_files: one round of the loop over m3u_files; the
\* Exception of lines 285 and 289 is caught nowhere and ends the program
RBuild ==
  /\ rpc = "build" /\ rindex <= Len(rfiles)
  /\ IF Raises(rfiles[rindex])
     THEN /\ rpc' = "raised"
          /\ UNCHANGED <<rindex, playlist_items>>
     ELSE /\ playlist_items' =
               IF Structured(rfiles[rindex])
               THEN playlist_items
                      \o ItemsFrom(rfiles[rindex].content, 1, rblacklist)
               ELSE playlist_items
          /\ rindex' = rindex + 1
          /\ UNCHANGED rpc
  /\ UNCHANGED <<rfiles, rblacklist, rverdicts, filtered, routput>>
  /\ RFrame

\* build_items_from_m3u_files returns, the items are submitted
RBuilt ==
  /\ rpc = "build" /\ rindex > Len(rfiles)
  /\ rpc' = "validate"
  /\ rverdicts' = [n \in DOMAIN playlist_items |-> "none"]
  /\ UNCHANGED <<rfiles, rblacklist, rindex, playlist_items, filtered, routput>>
  /\ RFrame

\* filter_streams_concurrent, lines 320-328: the future of item n
\* completes with the verdict ok (False when it raised)
RValidate(n, ok) ==
  /\ rpc = "validate" /\ rverdicts[n] = "none"
  /\ rverdicts' = [rverdicts EXCEPT ![n] = IF ok THEN "ok" ELSE "bad"]
  /\ filtered' = IF ok THEN Append(filtered, playlist_items[n]) ELSE filtered
  /\ UNCHANGED <<rfiles, rblacklist, rpc, rindex, playlist_items, routput>>
  /\ RFrame

RECURSIVE OutputLines(_)
\* write_output_file, line 338
OutputLines(items) ==
  IF items = <<>> THEN <<>>
  ELSE <<Head(items).metadata, Head(items).url>> \o OutputLines(Tail(items))

\* the main program, lines 363-366
RWrite ==
  /\ rpc = "validate"
  /\ \A n \in DOMAIN rverdicts : rverdicts[n] # "none"
  /\ routput' = IF filtered # <<>>
                THEN << <<"#","E","X","T","M","3","U">> >> \o OutputLines(filtered)
                ELSE routput
  /\ rpc' = "done"
  /\ UNCHANGED <<rfiles, rblacklist, rindex, playlist_items, rverdicts, filtered>>
  /\ RFrame

RNext ==
  \/ RBuild
  \/ RBuilt
  \/ \E n \in DOMAIN rverdicts, ok \in BOOLEAN : RValidate(n, ok)
  \/ RWrite

(***************************************************************************)
(* merge_playlists.py: concurrent reads, merge in completion order         *)
(***************************************************************************)
RECURSIVE StripLines(_)
\* lines 39-46: the stripped non-empty lines
StripLines(raw) ==
  IF raw = <<>> THEN <<>>
  ELSE (IF Strip(Head(raw)) = <<>> THEN <<>> ELSE <<Strip(Head(raw))>>)
       \o StripLines(Tail(raw))

\* read_m3u of a file that can be read, from the lines of splitlines()
g_read_m3u(raw) == StripLines(raw)

\* the state merge_from_file_lines works on
MergeState(seen, comb, ext) == [seen |-> seen, combined |-> comb, ext |-> ext]

\* lines 90-111: one iteration of the loop
MergeLine(st, line) ==
  IF Strip(Upper(line)) = <<"#","E","X","T","M","3","U">> THEN st
  ELSE IF StartsWith(line, <<"#","E","X","T","I","N","F">>)
       THEN MergeState(st.seen, st.combined, line)
  ELSE IF StartsWith(line, <<"#">>) THEN st
  ELSE IF Strip(line) \in st.seen
       THEN MergeState(st.seen, st.combined, NoExt)
  ELSE MergeState(st.seen \cup {Strip(line)},
                  st.combined
                    \o (IF st.ext # NoExt THEN <<st.ext>> ELSE <<>>)
                    \o <<Strip(line)>>,
                  NoExt)

RECURSIVE MergeLines(_, _, _)
MergeLines(file_lines, k, st) ==
  IF k > Len(file_lines) THEN st
  ELSE MergeLines(file_lines, k + 1, MergeLine(st, file_lines[k]))

\* lines 83-112
merge_from_file_lines(file_lines, seen, comb, pending_extinf) ==
  MergeLines(file_lines, 1, MergeState(seen, comb, pending_extinf))

GUrlX == <<"h","t","t","p",":","/","/","x">>
GUrlY == <<"h","t","t","p",":","/","/","y">>

\* the raw lines of the input files
GTexts ==
  { << <<"#","E","X","T","M","3","U">>, <<"#","E","X","T","I","N","F",":","-","1",",","A">>, GUrlX >>,
    << <<"#","e","x","t","m","3","u">>, <<"#","E","X","T","I","N","F",":","-","1",",","B">>, <<" ","h","t","t","p",":","/","/","x"," ">>, GUrlY >>,
    << <<"#","E","X","T","I","N","F",":","-","1",",","C">>, <<"#","E","X","T","V","L","C","O","P","T",":","z">>, GUrlY, <<>>, GUrlX >>,
    << <<"#","E","X","T","I","N","F",":","-","1",",","D">> >> }

\* expand_inputs returned one to MaxFiles files
GFileLists == UNION {[1..n -> GTexts] : n \in 1..MaxFiles}

\* line 129
GHeader == << <<"#","E","X","T","M","3","U">> >>

GInit ==
  /\ gfiles \in GFileLists
  /\ gthreads \in 1..MaxWorkers
  /\ gfuture = [i \in DOMAIN gfiles |-> "pending"]
  /\ glines = [i \in DOMAIN gfiles |-> <<>>]
  /\ gmerged = <<>>
  /\ combined = GHeader
  /\ seen_urls = {}
  /\ gpc = "merging"
  /\ goutput = <<>>

GIdle ==
  /\ gfiles = <<>>
  /\ gthreads = 0
  /\ gfuture = <<>>
  /\ glines = <<>>
  /\ gmerged = <<>>
  /\ combined = <<>>
  /\ seen_urls = {}
  /\ gpc = "idle"
  /\ goutput = <<>>

GFrame == UNCHANGED <<kvars, mvars, cvars, vvars, avars, pvars, rvars, dvars, fvars, evars, uvars>>

\* a pool thread takes the oldest pending future (line 136)
GReadStart(i) ==
  /\ gpc = "merging"
  /\ gfuture[i] = "pending"
  /\ \A j \in 1..(i - 1) : gfuture[j] # "pending"
  /\ Cardinality({j \in DOMAIN gfuture : gfuture[j] = "running"}) < gthreads
  /\ gfuture' = [gfuture EXCEPT ![i] = "running"]
  /\ UNCHANGED <<gfiles, gthreads, glines, gmerged, combined, seen_urls, gpc,
                 goutput>>
  /\ GFrame

\* read_m3u returns in the pool thread
GReadDone(i) ==
  /\ gpc = "merging"
  /\ gfuture[i] = "running"
  /\ gfuture' = [gfuture EXCEPT ![i] = "finished"]
  /\ glines' = [glines EXCEPT ![i] = g_read_m3u(gfiles[i])]
  /\ UNCHANGED <<gfiles, gthreads, gmerged, combined, seen_urls, gpc, goutput>>
  /\ GFrame

\* the files merged so far
Yielded == {gmerged[k] : k \in DOMAIN gmerged}

\* lines 140-149: as_completed yields a finished future and its lines are
\* merged.  Futures that finished before as_completed looks are yielded in
\* the iteration order of a set of futures, the others as they finish, so
\* any finished future can be the next one.
GMerge(i) ==
  /\ gpc = "merging"
  /\ gfuture[i] = "finished"
  /\ i \notin Yielded
  /\ gmerged' = Append(gmerged, i)
  /\ combined' = merge_from_file_lines(glines[i], seen_urls, combined,
                                       NoExt).combined
  /\ seen_urls' = merge_from_file_lines(glines[i], seen_urls, combined,
                                        NoExt).seen
  /\ UNCHANGED <<gfiles, gthreads, gfuture, glines, gpc, goutput>>
  /\ GFrame

\* lines 153-154: every future was yielded, the output is written
GWrite ==
  /\ gpc = "merging"
  /\ Yielded = DOMAIN gfiles
  /\ goutput' = combined
  /\ gpc' = "done"
  /\ UNCHANGED <<gfiles, gthreads, gfuture, glines, gmerged, combined,
                 seen_urls>>
  /\ GFrame

GNext ==
  \/ \E i \in DOMAIN gfiles : GReadStart(i)
  \/ \E i \in DOMAIN gfiles : GReadDone(i)
  \/ \E i \in DOMAIN gfiles : GMerge(i)
  \/ GWrite

(***************************************************************************)
(* rm-dupe.py: process_file                                                *)
(***************************************************************************)
\* the lines of text.splitlines()
DLines ==
  { <<"#","E","X","T","M","3","U">>, <<" ","#","E","X","T","I","N","F",":","-","1",",","A"," ">>, <<"#","E","X","T","V","L","C","O","P","T",":","z">>, <<"h","t","t","p",":","/","/","a">>,
    <<"h","t","t","p",":","/","/","a","/">>, <<" ","h","t","t","p",":","/","/","a">>, <<"r","t","m","p",":","/","/","a","/">>, <<"h","t","t","p",":","/","/","b">>, <<>> }

DTexts == UNION {[1..n -> DLines] : n \in 0..MaxLines}

\* str.rstrip()
RStrip(s) == RStripSet(s, Whitespace)

\* lines 43-47: the index of the first line that is not blank (0 for None)
first_nonempty(text) ==
  IF \E k \in DOMAIN text : Strip(text[k]) # <<>>
  THEN CHOOSE k \in DOMAIN text :
         /\ Strip(text[k]) # <<>>
         /\ \A j \in 1..(k - 1) : Strip(text[j]) = <<>>
  ELSE 0

\* line 48
HeaderFirst(text) ==
  /\ first_nonempty(text) # 0
  /\ Upper(Strip(text[first_nonempty(text)])) = <<"#","E","X","T","M","3","U">>

DInit ==
  /\ dtext \in DTexts
  /\ dpc = "start"
  /\ di = 1
  /\ dout_lines = <<>>
  /\ removed_urls = <<>>
  /\ dseen = {}
  /\ metadata_buf = <<>>
  /\ total_urls = 0
  /\ kept_urls = 0
  /\ dup_count = 0
  /\ doutput = <<>>

DIdle ==
  /\ dtext = <<>>
  /\ dpc = "idle"
  /\ di = 0
  /\ dout_lines = <<>>
  /\ removed_urls = <<>>
  /\ dseen = {}
  /\ metadata_buf = <<>>
  /\ total_urls = 0
  /\ kept_urls = 0
  /\ dup_count = 0
  /\ doutput = <<>>

DFrame == UNCHANGED <<kvars, mvars, cvars, vvars, avars, pvars, rvars, gvars, fvars, evars, uvars>>

\* lines 31-33: an empty file is skipped
DEmpty ==
  /\ dpc = "start"
  /\ dtext = <<>>
  /\ dpc' = "skipped"
  /\ UNCHANGED <<dtext, di, dout_lines, removed_urls, dseen, metadata_buf,
                 total_urls, kept_urls, dup_count, doutput>>
  /\ DFrame

\* lines 36-58: the header is kept when it is the first line that is not
\* blank, and the loop starts after it
DHeader ==
  /\ dpc = "start"
  /\ dtext # <<>>
  /\ dout_lines' = IF HeaderFirst(dtext) THEN << <<"#","E","X","T","M","3","U">> >> ELSE <<>>
  /\ di' = IF HeaderFirst(dtext) THEN first_nonempty(dtext) + 1 ELSE 1
  /\ dpc' = "loop"
  /\ UNCHANGED <<dtext, removed_urls, dseen, metadata_buf, total_urls,
                 kept_urls, dup_count, doutput>>
  /\ DFrame

\* lines 63-68: a blank line empties the metadata buffer
DBlank ==
  /\ dpc = "loop"
  /\ di <= Len(dtext)
  /\ Strip(dtext[di]) = <<>>
  /\ metadata_buf' = <<>>
  /\ di' = di + 1
  /\ UNCHANGED <<dtext, dpc, dout_lines, removed_urls, dseen, total_urls,
                 kept_urls, dup_count, doutput>>
  /\ DFrame

\* lines 70-74: a line that starts with # is buffered as it is
DMetadata ==
  /\ dpc = "loop"
  /\ di <= Len(dtext)
  /\ StartsWith(Strip(dtext[di]), <<"#">>)
  /\ metadata_buf' = Append(metadata_buf, dtext[di])
  /\ di' = di + 1
  /\ UNCHANGED <<dtext, dpc, dout_lines, removed_urls, dseen, total_urls,
                 kept_urls, dup_count, doutput>>
  /\ DFrame

\* a line that is neither blank nor metadata (line 76)
IsDUrl(line) == Strip(line) # <<>> /\ ~StartsWith(Strip(line), <<"#">>)

\* dout_lines without the buffered metadata
KeepUrlOnly(out, buf, url_line) == Append(out, url_line)

\* lines 91-97: the buffered metadata and the URL are kept
KeepEntry(out, buf, url_line) == Append(out \o buf, url_line)

\* lines 77-79, 81-86 and 100: a URL whose normal form was seen is skipped
\* and counted, with its metadata
DDuplicate ==
  /\ dpc = "loop"
  /\ di <= Len(dtext)
  /\ IsDUrl(dtext[di])
  /\ normalize_url(Strip(dtext[di])) \in dseen
  /\ total_urls' = total_urls + 1
  /\ dup_count' = dup_count + 1
  /\ removed_urls' = Append(removed_urls, Strip(dtext[di]))
  /\ metadata_buf' = <<>>
  /\ di' = di + 1
  /\ UNCHANGED <<dtext, dpc, dout_lines, dseen, kept_urls, doutput>>
  /\ DFrame

\* lines 77-79, 87-98 and 100: a new URL is kept with its metadata
DKeep ==
  /\ dpc = "loop"
  /\ di <= Len(dtext)
  /\ IsDUrl(dtext[di])
  /\ normalize_url(Strip(dtext[di])) \notin dseen
  /\ total_urls' = total_urls + 1
  /\ dseen' = dseen \cup {normalize_url(Strip(dtext[di]))}
  /\ kept_urls' = kept_urls + 1
  /\ dout_lines' = KeepEntry(dout_lines, metadata_buf, Strip(dtext[di]))
  /\ metadata_buf' = <<>>
  /\ di' = di + 1
  /\ UNCHANGED <<dtext, dpc, removed_urls, dup_count, doutput>>
  /\ DFrame

\* lines 103-106: the kept lines are written without trailing white space
DWrite ==
  /\ dpc = "loop"
  /\ di > Len(dtext)
  /\ doutput' = [k \in DOMAIN dout_lines |-> RStrip(dout_lines[k])]
  /\ dpc' = "done"
  /\ UNCHANGED <<dtext, di, dout_lines, removed_urls, dseen, metadata_buf,
                 total_urls, kept_urls, dup_count>>
  /\ DFrame

DNext ==
  \/ DEmpty
  \/ DHeader
  \/ DBlank
  \/ DMetadata
  \/ DDuplicate
  \/ DKeep
  \/ DWrite

(***************************************************************************)
(* M3UEntry.fix_url on URL lines built from fragments                      *)
(***************************************************************************)
\* a URL line starts with a host, with or without a scheme
FHeads == { <<"a",".","b","/">>, <<"h","t","t","p",":","/","/","a",".","b","/">>, <<"r","t","s","p",":","/","/","a",".","b">> }

FTails == { <<"/">>, <<"x">>, <<" ">>, <<"\t">>, <<"?","u","=">>, <<"/","/","c">> }

FInit ==
  /\ furl = <<>>
  /\ fnfrag = 0
  /\ fpc = "build"
  /\ fentry_url = <<>>
  /\ ffixed = <<>>

FIdle ==
  /\ furl = <<>>
  /\ fnfrag = 0
  /\ fpc = "idle"
  /\ fentry_url = <<>>
  /\ ffixed = <<>>

FFrame ==
  UNCHANGED <<kvars, mvars, cvars, vvars, avars, pvars, rvars, gvars, dvars,
              evars, uvars>>

\* one more fragment of the URL line
FAppend(f) ==
  /\ fpc = "build" /\ fnfrag < MaxFrags
  /\ furl = <<>> <=> f \in FHeads
  /\ furl' = furl \o f
  /\ fnfrag' = fnfrag + 1
  /\ UNCHANGED <<fpc, fentry_url, ffixed>>
  /\ FFrame

\* M3UEntry.__init__ strips the line (line 127); process_entry calls
\* entry.fix_url() for an entry that is not valid (lines 292-294), which
\* assigns URLValidator.fix_url(self.url) (lines 165-166)
FFix ==
  /\ fpc = "build" /\ furl # <<>>
  /\ ~validate_url(Strip(furl)).is_valid
  /\ fentry_url' = Strip(furl)
  /\ ffixed' = fix_url(Strip(furl))
  /\ fpc' = "fixed"
  /\ UNCHANGED <<furl, fnfrag>>
  /\ FFrame

FNext ==
  \/ \E f \in FHeads \cup FTails : FAppend(f)
  \/ FFix

(***************************************************************************)
(* The parsers that feed the validators: M3UValidator.parse_m3u            *)
(* (url_checker.py), parse_m3u_file (validator.py) and                     *)
(* build_items_from_m3u_files (m3u-vaildator.py)                           *)
(***************************************************************************)
ELineKinds ==
  { <<"#","E","X","T","M","3","U">>, <<"#","E","X","T","I","N","F",":","-","1",",","A">>, <<"#","E","X","T","I","N","F",":","-","1",",","B">>, <<"#","E","X","T","V","L","C","O","P","T",":","x">>,
    <<"h","t","t","p",":","/","/","a","/","1">>, <<" ","h","t","t","p",":","/","/","b","/","2">>, <<>> }

ETexts == UNION {[1..n -> ELineKinds] : n \in 1..MaxFeedLines}

\* url_checker.py line 61: the text after the last comma, 'Unknown' when
\* the metadata has no comma
FriendlyName(current_metadata) ==
  IF Contains(current_metadata, <<",">>)
  THEN Drop(current_metadata,
            RFind(current_metadata, ",", Len(current_metadata)) + 1)
  ELSE <<"U","n","k","n","o","w","n">>

RECURSIVE CheckerLines(_, _)
\* url_checker.py lines 54-62: the loop over the lines left
CheckerLines(lines, current_metadata) ==
  IF lines = <<>> THEN <<>>
  ELSE IF StartsWith(Strip(Head(lines)), <<"#","E","X","T","I","N","F">>)
    THEN CheckerLines(Tail(lines), Strip(Head(lines)))
  ELSE IF StartsWith(Strip(Head(lines)), <<"h","t","t","p">>)
    THEN <<[metadata |-> current_metadata, url |-> Strip(Head(lines)),
            name |-> FriendlyName(current_metadata)]>>
           \o CheckerLines(Tail(lines), current_metadata)
  ELSE CheckerLines(Tail(lines), current_metadata)

\* M3UValidator.parse_m3u on an existing file of these lines
parse_m3u(lines) == CheckerLines(lines, <<>>)

\* read_local_file (m3u-vaildator.py lines 68-71)
read_local_file(lines) == [k \in DOMAIN lines |-> Strip(lines[k])]

EInit ==
  /\ elines \in ETexts
  /\ epc = "start"
  /\ eparser = "none"
  /\ eitems = <<>>

EIdle ==
  /\ elines = <<>>
  /\ epc = "idle"
  /\ eparser = "none"
  /\ eitems = <<>>

EFrame ==
  UNCHANGED <<kvars, mvars, cvars, vvars, avars, pvars, rvars, gvars, dvars,
              fvars, uvars>>

\* M3UValidator.run reads the items with parse_m3u (url_checker.py line 67)
EChecker ==
  /\ epc = "start"
  /\ eitems' = [k \in DOMAIN parse_m3u(elines) |->
                  [metadata |-> parse_m3u(elines)[k].metadata,
                   url |-> parse_m3u(elines)[k].url]]
  /\ eparser' = "url_checker"
  /\ epc' = "parsed"
  /\ UNCHANGED elines
  /\ EFrame

\* process_file collects the pairs of parse_m3u_file (validator.py)
EValidator ==
  /\ epc = "start"
  /\ eitems' = [k \in DOMAIN ParseLines(elines, NoExt) |->
                  [metadata |-> ParseLines(elines, NoExt)[k].ext,
                   url |-> ParseLines(elines, NoExt)[k].url]]
  /\ eparser' = "validator"
  /\ epc' = "parsed"
  /\ UNCHANGED elines
  /\ EFrame

\* build_items_from_m3u_files on the one file, with an empty blacklist
\* (m3u-vaildator.py lines 274-304): it raises for a file without header
\* or without URL
EBuild ==
  /\ epc = "start"
  /\ IF Raises(RFile(FALSE, read_local_file(elines)))
     THEN epc' = "raised" /\ UNCHANGED eitems
     ELSE /\ epc' = "parsed"
          /\ eitems' = ItemsFrom(read_local_file(elines), 1, {})
  /\ eparser' = "build_items"
  /\ UNCHANGED elines
  /\ EFrame

ENext ==
  \/ EChecker
  \/ EValidator
  \/ EBuild

(***************************************************************************)
(* ultra-iptv.py: merge_all                                                *)
(***************************************************************************)
UrlA == <<"h","t","t","p",":","/","/","h","/","a",".","m","3","u">>
UrlB == <<"h","t","t","p",":","/","/","h","/","b",".","m","3","u">>
UrlC == <<"h","t","t","p",":","/","/","h","/","q","?","t","y","p","e","=","m","3","u">>

\* the playlist URLs of the web
PlaylistUrls == {UrlA, UrlB, UrlC}

\* what a playlist URL may answer with: nothing, one stream, one nested
\* playlist (bare, or relative after an #EXTINF line), or two of them
UTexts ==
  { <<>>,
    << <<"#","E","X","T","I","N","F",":","-","1",",","S">>, <<"h","t","t","p",":","/","/","h","/","s",".","t","s">> >>,
    << UrlA >>, << UrlB >>, << UrlC >>,
    << <<"#","e","x","t","i","n","f",":","-","1",",","N">>, <<"#","E","X","T","V","L","C","O","P","T",":","x">>, <<"b",".","m","3","u">> >>,
    << UrlA, <<"h","t","t","p",":","/","/","h","/","s",".","t","s">>, UrlC >> }

\* urljoin(base, link) for a link that is absolute or a file name
urljoin(base, link) ==
  IF Contains(link, SchemeSep) THEN link ELSE BaseUri(base) \o link

RECURSIVE InfoEnd(_, _)
\* lines 54-56: the first line from i on that does not start with '#'
InfoEnd(lines, i) ==
  IF i > Len(lines) THEN i
  ELSE IF StartsWith(lines[i], <<"#">>) THEN InfoEnd(lines, i + 1)
  ELSE i

RECURSIVE Joined(_, _, _)
\* lines 52-56: the lines i..j joined with newlines
Joined(lines, i, j) ==
  IF i > j THEN <<>>
  ELSE IF i = j THEN lines[i]
  ELSE lines[i] \o <<NL>> \o Joined(lines, i + 1, j)

RECURSIVE UParseFrom(_, _, _)
\* lines 50-63: the loop of parse_m3u from line i on; the info of a bare
\* link is None
UParseFrom(base, lines, i) ==
  IF i > Len(lines) THEN <<>>
  ELSE IF StartsWith(Lower(lines[i]), <<"#","e","x","t","i","n","f">>)
    THEN (IF InfoEnd(lines, i + 1) <= Len(lines)
          THEN <<[info |-> Joined(lines, i, InfoEnd(lines, i + 1) - 1),
                  link |-> urljoin(base, lines[InfoEnd(lines, i + 1)])]>>
          ELSE <<>>)
         \o UParseFrom(base, lines, InfoEnd(lines, i + 1) + 1)
  ELSE IF StartsWith(lines[i], <<"h","t","t","p">>)
    THEN <<[info |-> NoExt, link |-> lines[i]]>>
           \o UParseFrom(base, lines, i + 1)
  ELSE UParseFrom(base, lines, i + 1)

\* parse_m3u(base, text) on the stripped lines of the text that are not
\* empty (line 46)
u_parse_m3u(base, lines) == UParseFrom(base, StripLines(lines), 1)

\* line 98
IsNested(link) ==
  \/ Contains(Lower(link), <<"t","y","p","e","=","m","3","u">>)
  \/ EndsWith(Lower(link), <<".","m","3","u">>)

RECURSIVE NestedNew(_, _)
\* lines 97-101: the nested links of the items that are not visited
NestedNew(items, seen) ==
  IF items = <<>> THEN <<>>
  ELSE (IF IsNested(Head(items).link) /\ Head(items).link \notin seen
        THEN <<Head(items).link>> ELSE <<>>)
       \o NestedNew(Tail(items), seen)

RECURSIVE Streams(_)
\* lines 102-103
Streams(items) ==
  IF items = <<>> THEN <<>>
  ELSE (IF IsNested(Head(items).link) THEN <<>> ELSE <<Head(items)>>)
       \o Streams(Tail(items))

RECURSIVE NotVisited(_, _)
\* line 80: [u for u in queue if u not in visited]
NotVisited(queue, seen) ==
  IF queue = <<>> THEN <<>>
  ELSE (IF Head(queue) \in seen THEN <<>> ELSE <<Head(queue)>>)
       \o NotVisited(Tail(queue), seen)

UInit ==
  /\ uweb \in [PlaylistUrls -> UTexts]
  /\ start_urls \in UNION {[1..n -> PlaylistUrls] : n \in 1..MaxStartUrls}
  /\ visited = {}
  /\ ucollected = <<>>
  /\ uqueue = start_urls
  /\ ubatch = <<>>
  /\ ufuture = <<>>
  /\ upc = "loop"
  /\ ufetched = [u \in PlaylistUrls |-> 0]

UIdle ==
  /\ uweb = <<>>
  /\ start_urls = <<>>
  /\ visited = {}
  /\ ucollected = <<>>
  /\ uqueue = <<>>
  /\ ubatch = <<>>
  /\ ufuture = <<>>
  /\ upc = "idle"
  /\ ufetched = <<>>

UFrame ==
  UNCHANGED <<kvars, mvars, cvars, vvars, avars, pvars, rvars, gvars, dvars,
              fvars, evars>>

\* lines 79-86: the queue is not empty, the batch is submitted
UBatch ==
  /\ upc = "loop" /\ uqueue # <<>>
  /\ ubatch' = NotVisited(uqueue, visited)
  /\ uqueue' = <<>>
  /\ ufuture' = [i \in DOMAIN NotVisited(uqueue, visited) |-> "pending"]
  /\ upc' = "batch"
  /\ UNCHANGED <<uweb, start_urls, visited, ucollected, ufetched>>
  /\ UFrame

\* fetch(url) in a pool thread (lines 16-42): one request
UFetch(i) ==
  /\ upc = "batch" /\ ufuture[i] = "pending"
  /\ ufuture' = [ufuture EXCEPT ![i] = "finished"]
  /\ ufetched' = [ufetched EXCEPT ![ubatch[i]] = @ + 1]
  /\ UNCHANGED <<uweb, start_urls, visited, ucollected, uqueue, ubatch, upc>>
  /\ UFrame

\* line 88: as_completed yields a finished future
UYield(i) ==
  /\ upc = "batch" /\ ufuture[i] = "finished"
  /\ ufuture' = [ufuture EXCEPT ![i] = "yielded"]

\* lines 88-103: the url of the yielded future is visited, its nested
\* playlists are queued and its streams collected
UCollect(i) ==
  /\ UYield(i)
  /\ visited' = visited \cup {ubatch[i]}
  /\ uqueue' = uqueue \o NestedNew(u_parse_m3u(ubatch[i], uweb[ubatch[i]]),
                                   visited \cup {ubatch[i]})
  /\ ucollected' = ucollected \o Streams(u_parse_m3u(ubatch[i], uweb[ubatch[i]]))
  /\ UNCHANGED <<uweb, start_urls, ubatch, upc, ufetched>>
  /\ UFrame

\* the executor shuts down and the loop goes on (line 79)
UBatchEnd ==
  /\ upc = "batch"
  /\ \A i \in DOMAIN ufuture : ufuture[i] = "yielded"
  /\ upc' = "loop"
  /\ UNCHANGED <<uweb, start_urls, visited, ucollected, uqueue, ubatch,
                 ufuture, ufetched>>
  /\ UFrame

\* lines 105-106: the queue is empty, merge_all returns
UReturn ==
  /\ upc = "loop" /\ uqueue = <<>>
  /\ upc' = "done"
  /\ UNCHANGED <<uweb, start_urls, visited, ucollected, uqueue, ubatch,
                 ufuture, ufetched>>
  /\ UFrame

UNext ==
  \/ UBatch
  \/ \E i \in DOMAIN ufuture : UFetch(i)
  \/ \E i \in DOMAIN ufuture : UCollect(i)
  \/ UBatchEnd
  \/ UReturn

(***************************************************************************)
(* Specifications                                                          *)
(***************************************************************************)
\* the merger: any configuration, any sources drawn from the pool
Init == MInit /\ KIdle /\ CIdle /\ VIdle /\ AIdle /\ PIdle /\ RIdle /\ GIdle /\ DIdle /\ FIdle /\ EIdle /\ UIdle

Next == MNext

Spec == Init /\ [][Next]_vars

\* the key derivations on bounded inputs
InitKey == KIdle /\ MIdle /\ CIdle /\ VIdle /\ AIdle /\ PIdle /\ RIdle /\ GIdle /\ DIdle /\ FIdle /\ EIdle /\ UIdle

SpecKey == InitKey /\ [][KNext]_vars

\* classify_stream under every sequence of probe responses
InitClassify == CInit /\ MIdle /\ KIdle /\ VIdle /\ AIdle /\ PIdle /\ RIdle /\ GIdle /\ DIdle /\ FIdle /\ EIdle /\ UIdle

SpecClassify == InitClassify /\ [][CNext]_vars

\* verify_playlist_item under every answer of the network
InitVerify == VInit /\ MIdle /\ KIdle /\ CIdle /\ AIdle /\ PIdle /\ RIdle /\ GIdle /\ DIdle /\ FIdle /\ EIdle /\ UIdle

SpecVerify == InitVerify /\ [][VNext]_vars

\* validate_paths under every schedule of its tasks
InitAggregate == AInit /\ MIdle /\ KIdle /\ CIdle /\ VIdle /\ PIdle /\ RIdle /\ GIdle /\ DIdle /\ FIdle /\ EIdle /\ UIdle

SpecAggregate == InitAggregate /\ [][ANext]_vars

\* the playlist tools on every file of up to MaxLines lines
InitParse == PInit /\ MIdle /\ KIdle /\ CIdle /\ VIdle /\ AIdle /\ RIdle /\ GIdle /\ DIdle /\ FIdle /\ EIdle /\ UIdle

SpecParse == InitParse /\ [][PNext]_vars

\* the main program of m3u-vaildator.py on every list of input files
InitRun == RInit /\ MIdle /\ KIdle /\ CIdle /\ VIdle /\ AIdle /\ PIdle /\ GIdle /\ DIdle /\ FIdle /\ EIdle /\ UIdle

SpecRun == InitRun /\ [][RNext]_vars

\* merge_playlists.py
InitMerge == GInit /\ MIdle /\ KIdle /\ CIdle /\ VIdle /\ AIdle /\ PIdle /\ RIdle /\ DIdle /\ FIdle /\ EIdle /\ UIdle

SpecMerge == InitMerge /\ [][GNext]_vars

\* rm-dupe.py
InitDedupe == DInit /\ MIdle /\ KIdle /\ CIdle /\ VIdle /\ AIdle /\ PIdle /\ RIdle /\ GIdle /\ FIdle /\ EIdle /\ UIdle

SpecDedupe == InitDedupe /\ [][DNext]_vars

\* M3UEntry.fix_url
InitFix == FInit /\ MIdle /\ KIdle /\ CIdle /\ VIdle /\ AIdle /\ PIdle /\ RIdle /\ GIdle /\ DIdle /\ EIdle /\ UIdle

SpecFix == InitFix /\ [][FNext]_vars

\* the parsers that feed the validators
InitFeed == EInit /\ MIdle /\ KIdle /\ CIdle /\ VIdle /\ AIdle /\ PIdle /\ RIdle /\ GIdle /\ DIdle /\ FIdle /\ UIdle

SpecFeed == InitFeed /\ [][ENext]_vars

\* merge_all of ultra-iptv.py
InitCrawl == UInit /\ MIdle /\ KIdle /\ CIdle /\ VIdle /\ AIdle /\ PIdle /\ RIdle /\ GIdle /\ DIdle /\ FIdle /\ EIdle

SpecCrawl == InitCrawl /\ [][UNext]_vars

\* every request is answered or times out (TIMEOUT, line 19) and the
\* thread of merge_all is never held up for ever; a step that yields a
\* future is a step of UCollect
SpecCrawlFair ==
  /\ SpecCrawl
  /\ WF_vars(UBatch)
  /\ WF_vars(\E i \in DOMAIN ufuture : UFetch(i))
  /\ WF_ufuture(\E i \in DOMAIN ufuture : UYield(i))
  /\ WF_vars(UBatchEnd)
  /\ WF_vars(UReturn)

(***************************************************************************)
(* Properties of  M3UMerger                                                  *)
(***************************************************************************)
\* add_entries has returned and no call is in progress
Merged == mpc = "idle"

\* the entries submitted so far, in their final state
Submitted == {submitted[n] : n \in DOMAIN submitted}

\* the entries that remove_invalid takes out of the merge
Removed(e) == remove_invalid /\ ~e.is_valid

\* the submitted entries that share the key k
Group(k) == {e \in Submitted : get_unique_key(e.url) = k /\ ~Removed(e)}

\* the position in commit_log of the entry e, 0 when it was not committed
LogIndex(e) ==
  IF \E n \in DOMAIN commit_log :
       commit_log[n].src = e.src /\ commit_log[n].pos = e.pos
  THEN CHOOSE n \in DOMAIN commit_log :
         commit_log[n].src = e.src /\ commit_log[n].pos = e.pos
  ELSE 0

\* C1: after a merge, for every group of submitted entries that share one
\* key (those that remove_invalid excludes set aside) the result map holds
\* exactly one entry of the group, chosen by the strategy: 'first' the
\* earliest source's, 'last' the latest source's, 'longest' one with
\* strictly more attributes than every entry of the group committed before.
C1_OnePerKey ==
  Merged =>
    \A e \in Submitted : ~Removed(e) =>
      LET k == get_unique_key(e.url)
      IN /\ k \in DOMAIN entries
         /\ entries[k] \in Group(k)
         /\ conflict_strategy = "first" =>
              \A g \in Group(k) : entries[k].src <= g.src
         /\ conflict_strategy = "last" =>
              \A g \in Group(k) : entries[k].src >= g.src
         /\ conflict_strategy = "longest" =>
              \A g \in Group(k) :
                (LogIndex(g) > 0 /\ LogIndex(g) < LogIndex(entries[k]))
                  => MetaLen(g) < MetaLen(entries[k])

\* C2: within one source the entries are committed in the order of the
\* source, whatever the completion order of the workers; with 'first',
\* of two entries of one source with one key the earlier one is kept.
C2_SourceOrder ==
  /\ \A m, n \in DOMAIN commit_log :
       (m < n /\ commit_log[m].src = commit_log[n].src)
         => commit_log[m].pos < commit_log[n].pos
  /\ (Merged /\ conflict_strategy = "first") =>
       \A k \in DOMAIN entries : \A g \in Group(k) :
         (g.src = entries[k].src /\ LogIndex(g) > 0) => entries[k].pos <= g.pos

\* C3: no counter update is lost: after add_entries total_processed is the
\* number of entries submitted, valid + invalid = total_processed,
\* invalid = len(invalid_entries) and fixed = len(fixed_entries).
C3_CountersAddUp ==
  Merged =>
    /\ stats.total_processed = Len(submitted)
    /\ stats.valid + stats.invalid = stats.total_processed
    /\ stats.invalid = Len(invalid_entries)
    /\ stats.fixed = Len(fixed_entries)

\* C4: without remove_invalid no entry is dropped: after the merge the key
\* of every submitted entry is a key of the result map.
C4_NothingDropped ==
  (Merged /\ ~remove_invalid) =>
    \A e \in Submitted : get_unique_key(e.url) \in DOMAIN entries

\* the first-time insertions into the result map
FirstInsertions == {n \in DOMAIN commit_log : commit_log[n].was_new}

\* C5 (as claimed): after a merge the processed counter is the number of
\* first-time insertions into the result map.
C5_ProcessedIsInsertions ==
  Merged => stats.total_processed = Cardinality(FirstInsertions)

\* C5 (amended): after a merge total_processed is the number of entries
\* submitted to add_entries, duplicates and dropped entries included; the
\* first-time insertions are the size of the result map.
C5_ProcessedIsSubmitted ==
  Merged =>
    /\ stats.total_processed = Len(submitted)
    /\ Cardinality(FirstInsertions) = Cardinality(DOMAIN entries)

C5_Witness ==
  /\ Merged /\ nsources = 2
  /\ stats.total_processed = 2 /\ Cardinality(DOMAIN entries) = 1

\* C6: duplicates counts the committed entries whose key was already in the
\* result map, whatever the strategy: the size of the map plus duplicates is
\* the number of pairs committed.
C6_DuplicatesCounted ==
  /\ stats.duplicates = Len(commit_log) - Cardinality(FirstInsertions)
  /\ Cardinality(DOMAIN entries) + stats.duplicates = Len(commit_log)

C6_Witness ==
  /\ Merged /\ conflict_strategy = "last"
  /\ stats.duplicates = 1 /\ Len(commit_log) = 2
  /\ entries[commit_log[2].key].src = commit_log[2].src

(***************************************************************************)
(* Properties of  the key derivation                                         *)
(***************************************************************************)
\* C7: the key derivation is idempotent, for get_unique_key and for
\* normalize_url: deriving the key of a key gives the same key.
C7_KeyIdempotent ==
  kpc = "rekeyed" => (rekeyA = keyA /\ renormA = normA)

\* C8: URLs (here: without white space) that differ only in letter case
\* and in the presence or the value of volatile query parameters, wherever
\* these stand in the query, get the same key of get_unique_key.
C8_VolatileSameKey ==
  (/\ kpc \in {"keyed", "rekeyed"}
   /\ kdiff \subseteq {"case", "volatile"}
   /\ ~Contains(urlA, <<" ">>))
    => keyA = keyB

\* C9: key derivation strips at most one trailing slash, and an rtmp URL
\* with a trailing slash and the same URL without it get different keys.
C9_RtmpSlashKept ==
  kpc \in {"keyed", "rekeyed"} =>
    /\ (kdiff = {"slash"} /\ StartsWith(urlB, RtmpPrefix))
         => (keyA # keyB /\ normA # normB)
    /\ EndsWith(urlA, <<"/", "/">>)
         => (EndsWith(keyA, <<"/">>) /\ EndsWith(normA, <<"/">>))

(***************************************************************************)
(* Properties of  classify_stream                                            *)
(***************************************************************************)
\* C10: when the first header probe answers 200 with a known-good content
\* type, classify_stream returns working at once: no partial-body fetch,
\* no retry and no deep probe is issued.
C10_GoodHeadWorking ==
  (~first_head.none /\ first_head.status = 200 /\ GoodCT(first_head.ct)) =>
    /\ cpc = "done" /\ cresult = "working"
    /\ nhead = 1 /\ nget = 0 /\ ndeep = 0 /\ cattempt = 0

C10_Witness ==
  /\ cpc = "done" /\ cresult = "working" /\ nhead = 1
  /\ first_head = HeadResponse(200, <<"a","p","p","l","i","c","a","t","i","o","n","/","v","n","d",".","a","p","p","l","e",".","m","p","e","g","u","r","l">>)

\* the number of header probes, and of partial-body fetches, of a
\* classification that runs through every round
FullBudget == 1 + DEFAULT_RETRIES

\* C11: when the first header probe answers 200 with content type
\* text/html, classify_stream returns broken at once: no partial-body
\* fetch, no retry and no deep probe is issued.
C11_HtmlHeadBroken ==
  (/\ ~first_head.none /\ first_head.status = 200
   /\ Lower(first_head.ct) = <<"t","e","x","t","/","h","t","m","l">>) =>
    /\ cpc = "done" /\ cresult = "broken"
    /\ nhead = 1 /\ nget = 0 /\ ndeep = 0 /\ cattempt = 0

C11_Witness ==
  /\ cpc = "done" /\ cresult = "broken" /\ nhead = 1 /\ nget = 0
  /\ first_head = HeadResponse(200, <<"T","e","x","t","/","H","T","M","L">>)

\* C12: when every header probe and every partial-body fetch fails and
\* the deep probe is disabled, classify_stream returns broken, and only
\* after the initial attempt and all DEFAULT_RETRIES retry rounds.
C12_AllFailBroken ==
  (~use_ffprobe /\ nfail = nhead + nget) =>
    /\ cpc = "done" =>
         /\ cresult = "broken"
         /\ nhead = FullBudget /\ nget = FullBudget
         /\ cattempt = DEFAULT_RETRIES
    /\ cpc # "done" => cresult = "none"

C12_Witness ==
  /\ cpc = "done" /\ ~use_ffprobe /\ cresult = "broken"
  /\ nfail = 2 * FullBudget /\ nhead = FullBudget /\ nget = FullBudget

\* C13: when classify_stream has returned and the bytes of the last
\* partial-body fetch hold the signature #EXTM3U the result is working;
\* when they hold an HTML opening tag and no signature it is broken.
C13_SniffSignatures ==
  (cpc = "done" /\ ~cchunk.none) =>
    /\ Contains(cchunk.text, EXTM3U_BYTES) => cresult = "working"
    /\ (/\ ~Contains(cchunk.text, EXTM3U_BYTES)
        /\ Contains(Lower(cchunk.text), HTML_BYTES)) => cresult = "broken"

\* the last partial-body fetch was ambiguous: enough bytes, no signature
SniffAmbiguous ==
  SniffVerdict(cchunk, IF cattempt = 0 THEN SniffMin ELSE RetrySniffMin)
    = "ambiguous"

\* C14 (as claimed): after a deep probe the result is working when the
\* probe passed and broken when it failed.
C14_DeepProbeFinal ==
  (cpc = "done" /\ deep_ok # "none") =>
    cresult = (IF deep_ok = "pass" THEN "working" ELSE "broken")

\* C14 (amended): after a deep probe the result is working when the probe
\* passed; when it failed the result is maybe if the probe followed an
\* ambiguous partial-body fetch and broken if it followed the last retry
\* round; the deep probe is called at most once and nothing follows it.
C14_DeepProbeVerdict ==
  /\ deep_ok # "none" => (cpc = "done" /\ ndeep = 1 /\ use_ffprobe)
  /\ deep_ok = "pass" => cresult = "working"
  /\ deep_ok = "fail" =>
       cresult = (IF SniffAmbiguous THEN "maybe" ELSE "broken")

C14_Witness ==
  /\ cpc = "done" /\ deep_ok = "fail" /\ cresult = "maybe" /\ cattempt = 2

\* C15: no failure of a probe ends the classification: it ends with one
\* of working, maybe, broken; after a failed header probe the partial-body
\* fetch is still made; after a failed partial-body fetch the call ends
\* only when the retry rounds are used up, and then the deep probe, when
\* enabled, has been made.
C15_FailuresContained ==
  /\ cpc = "done" => cresult \in {"working", "maybe", "broken"}
  /\ cpc # "done" => cresult = "none"
  /\ (nhead > nget /\ cresp.none) => cpc \in {"get", "retry_get"}
  /\ (cpc = "done" /\ nget > 0 /\ nhead = nget /\ cchunk.none) =>
       /\ nget = FullBudget
       /\ use_ffprobe => deep_ok # "none"

C15_Witness ==
  /\ cpc = "done" /\ cresult = "working" /\ nfail = 4 /\ nhead = 3
  /\ deep_ok = "none"

\* a header answer that settles the classification
HeadConclusive(resp) ==
  ~resp.none /\ resp.status = 200 /\ (GoodCT(resp.ct) \/ HtmlCT(resp.ct))

\* bytes that settle the classification: the playlist signature or an HTML
\* opening tag
ChunkConclusive(chunk) ==
  /\ ~chunk.none
  /\ \/ Contains(chunk.text, EXTM3U_BYTES)
     \/ Contains(Lower(chunk.text), HTML_BYTES)

\* C16: classify_stream issues at most 1 + DEFAULT_RETRIES header probes,
\* as many partial-body fetches and one deep probe, and a conclusive
\* signal (good or HTML content type, playlist signature, HTML tag) ends
\* the classification with no further probe.
C16_BudgetAndShortCircuit ==
  /\ nhead <= FullBudget /\ nget <= FullBudget /\ ndeep <= 1
  /\ HeadConclusive(cresp) => cpc = "done"
  /\ ChunkConclusive(cchunk) => cpc = "done"

(***************************************************************************)
(* Properties of  verify_playlist_item and verify_playlist_link            *)
(***************************************************************************)
\* the call of m3u8.load made last
LastLoad == vloads[Len(vloads)]

\* a measure that every step of the verification increases
VRank ==
  CASE vpc = "item"  -> 0
    [] vpc = "head"  -> 100 * vindent + 1
    [] vpc = "load"  -> 100 * vindent + 2
    [] vpc = "probe" -> 100 * vindent + 3 + vseg
    [] OTHER         -> 100 * (MAX_NESTED_PLAYLIST_DEPTH + 2)

\* no document is loaded at an indent above the limit, at most one per
\* level, and the call that is one level too deep returns broken
DepthBound ==
  /\ \A n \in DOMAIN vloads : vloads[n].indent <= MAX_NESTED_PLAYLIST_DEPTH
  /\ \A n \in DOMAIN vloads :
       n > 1 => vloads[n].indent = vloads[n - 1].indent + 1
  /\ vindent <= MAX_NESTED_PLAYLIST_DEPTH + 1
  /\ vindent > MAX_NESTED_PLAYLIST_DEPTH => (vpc = "done" /\ ~vresult)
  /\ VRank <= 100 * (MAX_NESTED_PLAYLIST_DEPTH + 2)

\* C17: nested-playlist validation terminates: every step increases a
\* bounded measure; no document deeper than MAX_NESTED_PLAYLIST_DEPTH is
\* fetched, and the seventh playlist of a chain (also of a cycle) makes
\* the verdict broken.
C17_DepthBound == []DepthBound /\ [][VRank' > VRank]_vvars

C17_Witness ==
  /\ vpc = "done" /\ ~vresult /\ vindent = MAX_NESTED_PLAYLIST_DEPTH + 1
  /\ Len(vloads) = MAX_NESTED_PLAYLIST_DEPTH /\ vloads[1].indent = 1
  /\ vloads[2].url = vloads[3].url

\* the document loaded last lists child playlists
ListsChildren == vloads # <<>> /\ ~vdoc.failed /\ vdoc.playlists # <<>>

\* C18: when the document loaded last lists child playlists, the call
\* that follows is for its first child at indent + 1, it gives the
\* verdict, and no segment of the document is probed; segments are probed
\* only in a document without children.
C18_FirstChildOnly ==
  /\ ListsChildren =>
       /\ vurl = AbsUrl(LastLoad.url, vdoc.playlists[1])
       /\ vindent = LastLoad.indent + 1
       /\ vprobes = <<>>
       /\ vpc \in {"head", "load", "done"}
       /\ vpc = "done" => ~vresult
  /\ vprobes # <<>> =>
       /\ vdoc.playlists = <<>>
       /\ \A n \in DOMAIN vprobes : vprobes[n].indent = LastLoad.indent

C18_Witness ==
  /\ vpc = "load" /\ Len(vdoc.playlists) = 2
  /\ vdoc.segments = << <<"s",".","t","s">> >>
  /\ vurl = <<"h","t","t","p",":","/","/","a","/","c","1",".","m","3","u","8">>
  /\ vindent = 2

\* C19: a loaded document without child playlists and without segments
\* makes the verdict broken, and nothing is probed.
C19_EmptyBroken ==
  (/\ vloads # <<>> /\ ~vdoc.failed
   /\ vdoc.playlists = <<>> /\ vdoc.segments = <<>>) =>
    (vpc = "done" /\ ~vresult /\ vprobes = <<>>)

C19_Witness ==
  /\ vpc = "done" /\ ~vresult /\ Len(vloads) = 2
  /\ vdoc = Doc(<<>>, <<>>)

\* the index of the k-th segment record with a uri
RECURSIVE KthSeg(_, _)
KthSeg(segments, k) ==
  IF k = 1 THEN NextSeg(segments, 1)
  ELSE NextSeg(segments, KthSeg(segments, k - 1) + 1)

\* C20: the segments of a document are probed in document order; a
\* failing segment makes the verdict broken and ends the probing; the
\* verdict is working as soon as CHECK_FIRST_N_SEGMENTS segments passed,
\* so that at most CHECK_FIRST_N_SEGMENTS probes are made.
C20_SegmentsInOrder ==
  /\ Len(vprobes) <= CHECK_FIRST_N_SEGMENTS
  /\ \A k \in DOMAIN vprobes :
       /\ vprobes[k].seg = KthSeg(vdoc.segments, k)
       /\ k < Len(vprobes) => vprobes[k].ok
  /\ (vprobes # <<>> /\ ~vprobes[Len(vprobes)].ok) =>
       (vpc = "done" /\ ~vresult)
  /\ (Len(vprobes) = CHECK_FIRST_N_SEGMENTS /\ vprobes[Len(vprobes)].ok) =>
       (vpc = "done" /\ vresult)
  /\ vpc = "probe" => vseg = KthSeg(vdoc.segments, Len(vprobes) + 1)

C20_Witness ==
  /\ vpc = "done" /\ vresult
  /\ Len(vprobes) = CHECK_FIRST_N_SEGMENTS
  /\ Len(vdoc.segments) = CHECK_FIRST_N_SEGMENTS + 1
  /\ \A n \in DOMAIN vdoc.segments : vdoc.segments[n] # <<>>

\* the redirect check was answered by a 3xx redirect to a target whose
\* extension is neither m3u8 nor m3u
BadRedirect ==
  /\ ~vhead.none /\ 300 <= vhead.status /\ vhead.status < 400
  /\ ~vhead.raised2
  /\ LastPiece(urlparse(vhead.location).path)
       \notin { <<"m","3","u","8">>, <<"m","3","u">> }

\* C21: when the header probe of a playlist url answers with a redirect
\* to a target with an extension other than m3u8 or m3u,
\* verify_playlist_link returns broken at once: the document of that url
\* is never loaded.
C21_BadRedirectBroken ==
  BadRedirect =>
    /\ vpc = "done" /\ ~vresult
    /\ \A n \in DOMAIN vloads : vloads[n].indent < vindent

C21_Witness ==
  /\ vpc = "done" /\ ~vresult /\ Len(vloads) = 1 /\ vindent = 2
  /\ vhead = PlaylistHead(302, FALSE,
       <<"h","t","t","p",":","/","/","b","/","p",".","m","p","4">>)

(***************************************************************************)
(* Properties of  validate_paths  (validator.py)                           *)
(***************************************************************************)
\* the pairs parse_m3u_file yields for a file of the given text
Pairs(text) == parse_m3u_file(text)

UrlSet(text) == {Pairs(text)[n].url : n \in DOMAIN Pairs(text)}

\* the tasks classified st
Classified(st) == {t \in ATasks : atask[t].status = st}

\* C22: at the end of a run every classified triple is in exactly one
\* aggregated file, that of its outcome, and in the file of that outcome of
\* the directory of its source; for each outcome the aggregated file holds
\* exactly the URLs of the per-source files of that outcome.
C22_BucketsAgree ==
  apc = "done" =>
    \A st \in Statuses :
      /\ Len(Pairs(AggFile(st))) = Cardinality(Classified(st))
      /\ UrlSet(AggFile(st)) = {Triple(t).url : t \in Classified(st)}
      /\ UrlSet(AggFile(st)) = UNION {UrlSet(afiles[d][st]) : d \in Dirs}
      /\ \A d \in Dirs :
           Len(Pairs(afiles[d][st])) =
             Cardinality({t \in Classified(st) : Stem(asrc[t[1]].name) = d})

RECURSIVE ExpectedLines(_, _)
\* the lines of the triples of outcome st among the tasks of log, each
\* metadata line followed by its URL
ExpectedLines(log, st) ==
  IF log = <<>> THEN <<>>
  ELSE (IF atask[Head(log)].status # st THEN <<>>
        ELSE IF Triple(Head(log)).ext = NoExt THEN <<Triple(Head(log)).url>>
        ELSE <<Triple(Head(log)).ext, Triple(Head(log)).url>>)
       \o ExpectedLines(Tail(log), st)

\* C23: under every interleaving of the tasks of the sources, each
\* aggregated handle holds the triples written to it one after the other:
\* a metadata line is immediately followed by the URL of its own triple.
C23_TriplesNotInterleaved ==
  \A st \in Statuses :
    LET lines == SplitLines(agg[st])
    IN  /\ lines = ExpectedLines(awritten, st)
        /\ \A n \in DOMAIN lines :
             StartsWith(lines[n], <<"#","E","X","T","I","N","F">>) =>
               /\ n < Len(lines)
               /\ \E t \in Classified(st) :
                    Triple(t) = [ext |-> lines[n], url |-> lines[n + 1]]

C23_Witness ==
  /\ Len(awritten) >= 2 /\ aqueue # <<>>
  /\ awritten[1][1] # awritten[2][1]
  /\ atask[awritten[1]].status = atask[awritten[2]].status
  /\ Triple(awritten[1]).ext # NoExt /\ Triple(awritten[2]).ext # NoExt

\* C24: the tasks in flight (past the semaphore, in the delay or in
\* classify_stream) are never more than the concurrency, over all sources.
C24_InFlightBounded == Cardinality(InFlight) <= concurrency

C24_Witness ==
  /\ concurrency = MaxConcurrency
  /\ Cardinality(InFlight) = concurrency
  /\ \E t, u \in InFlight : t[1] # u[1]
  /\ \E t \in ATasks : atask[t].pc = "wait"

\* C25: parse_m3u_file on the aggregated file of outcome working yields
\* exactly the URLs classified working, and no metadata line as a URL.
C25_WorkingRoundTrip ==
  apc = "done" =>
    /\ UrlSet(AggFile("working")) = {Triple(t).url : t \in Classified("working")}
    /\ \A n \in DOMAIN Pairs(AggFile("working")) :
         ~StartsWith(Pairs(AggFile("working"))[n].url, <<"#">>)

C25_Witness ==
  /\ apc = "done"
  /\ \E t, u \in Classified("working") :
       /\ t[1] # u[1] /\ Triple(t).url # Triple(u).url
       /\ Triple(t).ext # NoExt /\ Triple(u).ext = NoExt
  /\ Classified("broken") # {}

(***************************************************************************)
(* Properties of the playlist parsers  (m3u-autofix.py, m3u_merger.py)     *)
(***************************************************************************)
FileLines == SplitLines(ptext)

\* read_m3u has returned
Read == ppc \in {"read", "written"}

\* M3UMerger.parse_m3u_file has returned
Parsed_ == ppc \in {"parsed", "processed"}

\* line i of the file is a metadata line, a URL line, or neither
IsMeta(i) == IsExtinfAnyCase(Strip(FileLines[i]))

IsUrlLine(i) ==
  Strip(FileLines[i]) # <<>> /\ ~StartsWith(Strip(FileLines[i]), <<"#">>)

Skipped(i) == ~IsMeta(i) /\ ~IsUrlLine(i)

\* the duration field of a metadata line: the text after '#EXTINF:' up to
\* the first white space or comma
DurationText(line) ==
  SubSeq(Strip(Drop(Strip(line), Len(ExtinfColon) + 1)), 1,
         FirstOf(Strip(Drop(Strip(line), Len(ExtinfColon) + 1)),
                 Whitespace \cup {","}, 1) - 1)

BadDuration(line) ==
  StartsWith(Upper(Strip(line)), ExtinfColon) /\ ~IsFloat(DurationText(line))

\* C26: a metadata line whose duration field is no number still yields its
\* entry, with duration -1 and the malformed flag set (the merger's entry
\* has no flag: its duration is -1).
C26_BadDurationFlagged ==
  /\ Read =>
       \A i \in DOMAIN FileLines :
         IsMeta(i) => \E k \in DOMAIN pentries : pentries[k].ext_lineno = i
  /\ \A k \in DOMAIN pentries :
       (~Falsy(pentries[k].extinf_line)
        /\ BadDuration(pentries[k].extinf_line.val)) =>
         (pentries[k].duration = -1 /\ pentries[k].malformed_extinf)
  /\ \A k \in DOMAIN mentries :
       (mentries[k].metadata.parsed /\ BadDuration(mentries[k].extinf_line)) =>
         mentries[k].metadata.duration = MinusOne

\* metadata line i is followed by metadata line j with no URL between them
NoUrlBetween(i, j) ==
  /\ i < j /\ IsMeta(i) /\ IsMeta(j)
  /\ \A n \in (i + 1)..(j - 1) : Skipped(n)

\* line u is the URL that follows metadata line j
UrlOf(j, u) ==
  /\ j < u /\ IsMeta(j) /\ IsUrlLine(u)
  /\ \A n \in (j + 1)..(u - 1) : Skipped(n)

WithUrl == {k \in DOMAIN pentries : ~pentries[k].url_line.none}

IsUrlText(line) == ~StartsWith(line, <<"#">>)

\* the URL lines and the metadata lines of the output of write_clean
UrlLinesOut == {n \in DOMAIN pwrite.out_lines : IsUrlText(pwrite.out_lines[n])}

ExtinfLinesOut ==
  {n \in DOMAIN pwrite.out_lines : IsExtinfAnyCase(pwrite.out_lines[n])}

\* C27: a metadata line followed by another metadata line with no URL
\* between them yields an entry with url None and status
\* broken_extinf_no_url; the second metadata line is the next entry and
\* keeps the URL that follows it; write_clean writes one metadata line and
\* one URL per entry it counts, and counts only entries that have a URL.
C27_BrokenExtinfNoUrl ==
  /\ Read =>
       \A i, j \in DOMAIN FileLines :
         NoUrlBetween(i, j) =>
           \E k \in DOMAIN pentries :
             /\ pentries[k].ext_lineno = i
             /\ pentries[k].url_line = None
             /\ status(pentries[k]) = "broken_extinf_no_url"
             /\ k < Len(pentries) /\ pentries[k + 1].ext_lineno = j
             /\ \A u \in DOMAIN FileLines :
                  UrlOf(j, u) =>
                    /\ pentries[k + 1].url_line = Some(Strip(FileLines[u]))
                    /\ pentries[k + 1].url_lineno = u
  /\ ppc = "written" =>
       /\ pwrite.written + pwrite.duplicates_removed = Cardinality(WithUrl)
       /\ Cardinality(UrlLinesOut) = pwrite.written
       /\ Cardinality(ExtinfLinesOut) = pwrite.written
       /\ \A n \in ExtinfLinesOut :
            n < Len(pwrite.out_lines) /\ IsUrlText(pwrite.out_lines[n + 1])

C27_Witness ==
  /\ ppc = "written" /\ pflags = <<TRUE, TRUE, TRUE>>
  /\ Len(FileLines) = 3 /\ NoUrlBetween(1, 2) /\ UrlOf(2, 3)
  /\ pwrite.written = 1 /\ pwrite.broken_kept = 1

RECURSIVE UnquotedComma(_, _, _)
\* the position of the first comma of s from i on that is outside double
\* quotes, Len(s) + 1 when there is none
UnquotedComma(s, i, quoted) ==
  IF i > Len(s) THEN i
  ELSE IF s[i] = "\"" THEN UnquotedComma(s, i + 1, ~quoted)
  ELSE IF s[i] = "," /\ ~quoted THEN i
  ELSE UnquotedComma(s, i + 1, quoted)

\* the title of a metadata line: the text after the comma that ends the
\* duration and the attributes
TitleOf(line) == Strip(Drop(line, UnquotedComma(line, 1, FALSE) + 1))

Scenario1 ==
  JoinLines(<< <<"#","E","X","T","I","N","F",":","-","1"," ","g","r","o","u","p","-","t","i","t","l","e","=","\"","N","e","w","s","\"",",","C","N","N">>, <<"h","t","t","p",":","/","/","a",".","t","e","s","t","/","c","n","n",".","m","3","u","8">> >>)

\* C28: the two lines of scenario 1 yield one entry with status ok,
\* duration -1 and title CNN; the key="value" attributes of a metadata
\* line are extracted apart and no part of them is in the title.
C28_AttributesApart ==
  /\ (ptext = Scenario1 /\ Read) =>
       /\ Len(pentries) = 1 /\ status(pentries[1]) = "ok"
       /\ pentries[1].duration = -1 /\ pentries[1].title = <<"C","N","N">>
       /\ pentries[1].attrs = <<"g","r","o","u","p","-","t","i","t","l","e","=","\"","N","e","w","s","\"">>
  /\ (ptext = Scenario1 /\ Parsed_) =>
       /\ Len(mentries) = 1
       /\ mentries[1].metadata.duration = MinusOne
       /\ mentries[1].metadata.title = <<"C","N","N">>
       /\ mentries[1].metadata.attributes = { << <<"g","r","o","u","p","-","t","i","t","l","e">>, <<"N","e","w","s">> >> }
  /\ \A k \in DOMAIN pentries :
       (~Falsy(pentries[k].extinf_line) /\ ~pentries[k].malformed_extinf) =>
         pentries[k].title = TitleOf(pentries[k].extinf_line.val)
  /\ \A k \in DOMAIN mentries :
       mentries[k].metadata.parsed =>
         mentries[k].metadata.title = TitleOf(mentries[k].extinf_line)

\* C29: every entry M3UMerger.parse_m3u_file returns, and every entry of
\* processed_entries after the fix attempt, has a non-empty url and key;
\* write_clean writes no empty URL line and counts only entries whose URL
\* is present and not empty.
C29_NoEmptyUrl ==
  /\ \A k \in DOMAIN mentries : mentries[k].url # <<>>
  /\ \A k \in DOMAIN mprocessed :
       mprocessed[k][2].url # <<>> /\ mprocessed[k][1] # <<>>
  /\ ppc = "written" =>
       /\ \A n \in DOMAIN pwrite.out_lines : pwrite.out_lines[n] # <<>>
       /\ Cardinality(UrlLinesOut) = pwrite.written
       /\ pwrite.written + pwrite.duplicates_removed =
            Cardinality({k \in DOMAIN pentries : ~Falsy(pentries[k].url_line)})
       /\ \A u \in pwrite.seen : u # <<>>

C29_Witness ==
  /\ ppc = "processed" /\ mflags = <<TRUE, FALSE>>
  /\ Len(mentries) = 2 /\ Len(mprocessed) = 1
  /\ mentries[1].url = <<"a",".","b","/","x">> /\ mentries[2].url = <<"/">>
  /\ mprocessed[1][2].url = <<"h","t","t","p",":","/","/","a",".","b","/","x">>

(***************************************************************************)
(* Properties of the main program of  m3u-vaildator.py                     *)
(***************************************************************************)
\* the run has ended: the program returned or an exception ended it
Ended == rpc \in {"done", "raised"}

\* the items of the files that have the header and a URL
ExpectedItems ==
  UNION { {ItemsFrom(rfiles[f].content, 1, rblacklist)[n] :
             n \in DOMAIN ItemsFrom(rfiles[f].content, 1, rblacklist)} :
          f \in {g \in DOMAIN rfiles : Structured(rfiles[g])} }

\* C30: when a source has no header or no URL, only that source is
\* skipped: at the end of the run every item of the other sources was
\* validated, and the output holds the items that passed.
C30_OnlyBadSourceSkipped ==
  Ended =>
    /\ \A it \in ExpectedItems :
         \E n \in DOMAIN rverdicts :
           playlist_items[n] = it /\ rverdicts[n] # "none"
    /\ filtered # <<>> => routput = << <<"#","E","X","T","M","3","U">> >> \o OutputLines(filtered)

(***************************************************************************)
(* Properties of  merge_playlists.py                                       *)
(***************************************************************************)
\* the URLs a file contributes when it is merged alone
UrlsOfFile(i) == merge_from_file_lines(glines[i], {}, <<>>, NoExt).seen

\* the #EXTINF line that precedes url in the merged lines comb (NoExt when
\* a URL or the header precedes it)
KeptExt(comb, url) ==
  LET k == CHOOSE n \in DOMAIN comb : comb[n] = url
  IN  IF k > 1 /\ StartsWith(comb[k - 1], <<"#","E","X","T","I","N","F">>) THEN comb[k - 1]
      ELSE NoExt

\* the first file of the input list that holds url
FirstFileWith(url) ==
  CHOOSE i \in DOMAIN gfiles :
    /\ url \in UrlsOfFile(i)
    /\ \A j \in 1..(i - 1) : url \notin UrlsOfFile(j)

\* C31: when the output is written, every URL is kept with the #EXTINF
\* line it has in the first file of the input list that holds it, whatever
\* the order in which the reads completed.
C31_FirstInputWins ==
  gpc = "done" =>
    \A url \in seen_urls :
      KeptExt(goutput, url) =
        KeptExt(merge_from_file_lines(glines[FirstFileWith(url)], {}, <<>>,
                                      NoExt).combined, url)

(***************************************************************************)
(* Properties of  rm-dupe.py                                               *)
(***************************************************************************)
\* the first line of the body: the line after the header when the header
\* is the first line that is not blank
BodyStart == IF HeaderFirst(dtext) THEN first_nonempty(dtext) + 1 ELSE 1

\* the positions of the URL lines of the body
UrlPositions == {p \in BodyStart..Len(dtext) : IsDUrl(dtext[p])}

\* the URL at p is the first occurrence of its normal form
FirstOccurrence(p) ==
  \A q \in UrlPositions :
    q < p => normalize_url(Strip(dtext[q])) # normalize_url(Strip(dtext[p]))

\* the first line of the run of metadata lines that ends right before p
MetaStart(p) ==
  CHOOSE m \in BodyStart..p :
    /\ \A k \in m..(p - 1) : StartsWith(Strip(dtext[k]), <<"#">>)
    /\ m > BodyStart => ~StartsWith(Strip(dtext[m - 1]), <<"#">>)

\* the lines written for the URL at p: its metadata lines and the URL
EntryLines(p) ==
  [k \in 1..(p - MetaStart(p)) |-> RStrip(dtext[MetaStart(p) + k - 1])]
    \o <<Strip(dtext[p])>>

RECURSIVE ExpectedFrom(_)
\* the lines of the first occurrences from position p on
ExpectedFrom(p) ==
  IF p > Len(dtext) THEN <<>>
  ELSE (IF p \in UrlPositions /\ FirstOccurrence(p) THEN EntryLines(p)
        ELSE <<>>) \o ExpectedFrom(p + 1)

\* C32: the file written holds the header, if any, and for every normal
\* form of a URL its first occurrence with the metadata lines directly
\* before it, and nothing of the later occurrences; the counters add up.
C32_FirstOccurrenceKept ==
  dpc = "done" =>
    /\ doutput = (IF HeaderFirst(dtext) THEN << <<"#","E","X","T","M","3","U">> >> ELSE <<>>)
                   \o ExpectedFrom(BodyStart)
    /\ kept_urls = Cardinality({p \in UrlPositions : FirstOccurrence(p)})
    /\ dup_count = Cardinality({p \in UrlPositions : ~FirstOccurrence(p)})
    /\ kept_urls + dup_count = total_urls
    /\ total_urls = Cardinality(UrlPositions)

\* a file was written in which a first occurrence with metadata is kept
\* and a later occurrence with metadata of its own is dropped
C32_Witness ==
  /\ dpc = "done"
  /\ kept_urls = 1 /\ dup_count = 1
  /\ Len(dtext) = 3
  /\ IsDUrl(dtext[1]) /\ StartsWith(Strip(dtext[2]), <<"#">>) /\ IsDUrl(dtext[3])
  /\ dtext[1] # dtext[3]

(***************************************************************************)
(* add_entries: the result map has a single writer                         *)
(***************************************************************************)
\* the workers of the call that have not returned yet
Unfinished == {i \in Workers : wpc[i] \notin {"done", "raised"}}

\* C33: every step that changes the result map is a step of the commit
\* loop of the coordinating thread, taken when every validation worker of
\* the call has finished.
C33_MapWrittenAfterWorkers ==
  [][entries' # entries => mpc = "commit" /\ Unfinished = {}]_vars

\* the commit loop has written the map in a call that ran two workers
C33_Witness ==
  /\ mpc = "commit" /\ ci > 1
  /\ Len(batch) = 2
  /\ entries # <<>>
  /\ \E i \in Workers : wpc[i] = "done"

(***************************************************************************)
(* Properties of  URLValidator.fix_url                                     *)
(***************************************************************************)
\* the query string of url: what follows the first question mark
QueryOf(url) ==
  IF Find(url, <<"?">>) > 0 THEN Drop(url, Find(url, <<"?">>) + 1) ELSE <<>>

\* url up to and with its scheme separator
SchemeOf(url) ==
  IF Find(url, SchemeSep) > 0 THEN SubSeq(url, 1, Find(url, SchemeSep) + 2)
  ELSE <<>>

\* the url as the slash step of fix_url receives it
BeforeSlashes(url) == FixScheme(FixChars(url))

\* C34: the slash step of fix_url keeps the scheme with its separator and
\* the query string as they are; only the path between them loses
\* repeated slashes.
C34_SlashesInPathOnly ==
  fpc = "fixed" =>
    /\ SchemeOf(ffixed) = SchemeOf(BeforeSlashes(fentry_url))
    /\ QueryOf(ffixed) = QueryOf(BeforeSlashes(fentry_url))

(***************************************************************************)
(* Properties of verify_video_link on the segments of a playlist           *)
(***************************************************************************)
\* the result of the probe that the step has recorded
LastProbeOk == vprobes'[Len(vprobes')].ok

\* C35: a segment probe whose HEAD request was answered with status 200
\* and an HTML content type fails, whatever the path of the segment URL,
\* and a probe answered with another status fails.
C35_HtmlSegmentFails ==
  [][\A r \in HeadResponses \ {None} :
       VProbe(r) =>
         /\ r.status = 200 /\ HtmlCT(r.ct) => ~LastProbeOk
         /\ r.status # 200 => ~LastProbeOk]_vars

(***************************************************************************)
(* The depth limit and the two ways into verify_playlist_link              *)
(***************************************************************************)
\* the call that ended the run was refused by the depth check of line 155
RefusedAsTooDeep == vpc = "done" /\ TooDeep(vindent)

\* the documents of the chain that were loaded before the refusal
ChainLoaded == Len(vloads)

\* C38: whichever way verify_playlist_item recognised the top-level URL as
\* a playlist, the depth check refuses no document of a chain of 6: when
\* it refuses one, MAX_NESTED_PLAYLIST_DEPTH documents of the chain were
\* loaded before it, so the sixth document is loaded and its segments
\* decide.
C38_DepthLimitSameForBothEntries ==
  RefusedAsTooDeep => ChainLoaded >= MAX_NESTED_PLAYLIST_DEPTH

(***************************************************************************)
(* verify_playlist_link: working needs a probed segment                    *)
(***************************************************************************)
\* verify_playlist_link has returned working for the item
LinkWorking == vpc = "done" /\ vresult /\ vloads # <<>>

\* C39: verify_playlist_link returns working only when a segment of the
\* document that decided was probed and every probed segment passed; a
\* document whose records all lack a uri is not working.
C39_WorkingNeedsProbedSegment ==
  LinkWorking =>
    /\ vprobes # <<>>
    /\ \A k \in DOMAIN vprobes : vprobes[k].ok

(***************************************************************************)
(* M3UMerger.parse_m3u_file: which metadata line a URL is paired with      *)
(***************************************************************************)
\* line i is a metadata line for the merger: it starts with '#EXTINF:'
IsExtinfLine(i) == StartsWith(Strip(FileLines[i]), ExtinfColon)

UrlLines == {u \in DOMAIN FileLines : IsUrlLine(u)}

\* the k-th URL line of the file
KthUrlLine(k) ==
  CHOOSE u \in UrlLines : Cardinality({v \in UrlLines : v <= u}) = k

\* the metadata lines before URL line u with no URL line in between
MetaBefore(u) ==
  {m \in 1..(u - 1) :
     IsExtinfLine(m) /\ \A n \in (m + 1)..(u - 1) : ~IsUrlLine(n)}

\* the nearest of them, as M3UEntry keeps it; '' when there is none
NearestMeta(u) ==
  IF MetaBefore(u) = {} THEN <<>>
  ELSE Strip(FileLines[CHOOSE m \in MetaBefore(u) :
                         \A n \in MetaBefore(u) : n <= m])

\* C36: parse_m3u_file gives one entry for each URL line, and its metadata
\* line is the nearest one before the URL: of two metadata lines in a row
\* the first is not paired with the URL that follows the second.
C36_NearestMetadataPaired ==
  Parsed_ =>
    /\ Len(mentries) = Cardinality(UrlLines)
    /\ \A k \in DOMAIN mentries :
         /\ mentries[k].url = Strip(FileLines[KthUrlLine(k)])
         /\ mentries[k].extinf_line = NearestMeta(KthUrlLine(k))

(***************************************************************************)
(* Properties of the parsers that feed the validators                      *)
(***************************************************************************)
\* line u of the file is a URL for all three parsers
EIsUrl(u) == StartsWith(Strip(elines[u]), <<"h","t","t","p">>)

EIsExtinf(m) == StartsWith(Strip(elines[m]), <<"#","E","X","T","I","N","F">>)

EUrlLines == {u \in DOMAIN elines : EIsUrl(u)}

\* the k-th URL line of the file
EKthUrl(k) ==
  CHOOSE u \in EUrlLines : Cardinality({v \in EUrlLines : v <= u}) = k

\* URL line u has a metadata line of its own: an #EXTINF line before it
\* with no URL in between
EPaired(u) ==
  \E m \in 1..(u - 1) :
    EIsExtinf(m) /\ \A n \in (m + 1)..(u - 1) : ~EIsUrl(n)

\* URL line u is a bare URL that follows a paired URL
BareAfterPaired(u) ==
  /\ u \in EUrlLines /\ ~EPaired(u)
  /\ \E v \in EUrlLines : v < u /\ EPaired(v)

\* C37: the parser gives one item for each URL line, and the item of a
\* bare URL that follows a paired URL carries neither an #EXTINF line nor
\* a URL line as its metadata.
C37_BareUrlHasNoMetadata ==
  epc = "parsed" =>
    /\ Len(eitems) = Cardinality(EUrlLines)
    /\ \A k \in DOMAIN eitems :
         /\ eitems[k].url = Strip(elines[EKthUrl(k)])
         /\ BareAfterPaired(EKthUrl(k)) =>
              /\ ~StartsWith(eitems[k].metadata, <<"#","E","X","T","I","N","F">>)
              /\ ~StartsWith(eitems[k].metadata, <<"h","t","t","p">>)

(***************************************************************************)
(* Properties of  merge_all                                                *)
(***************************************************************************)
\* no playlist URL was requested twice
FetchedOnce == \A u \in PlaylistUrls : ufetched[u] <= 1

\* C40: merge_all returns on every web of nested playlists, cycles
\* included, and requests no playlist URL more than once in a run.
C40_TerminatesFetchingOnce == []FetchedOnce /\ <>(upc = "done")

====
